---- MODULE Spec2Model ----
(***************************************************************************)
(* Scan orchestration engine of the network scanner: the execute_scan      *)
(* pipeline (discovery, bounded-parallel per-host enumeration,             *)
(* reconciliation, persistence, artifacts, finalization), its background   *)
(* callers, and the stuck-scan watchdog, over a shared Store.              *)
(*                                                                         *)
(* Store writes follow the ORM's behaviour: a commit issues an UPDATE of   *)
(* exactly the columns assigned since the previous commit (objects are     *)
(* expired on commit, so an assignment is written without comparing it to  *)
(* the row), and every UPDATE of a scans row refreshes updated_at.         *)
(*                                                                         *)
(* Time is kept relative to the clock: a timestamp column holds the        *)
(* minutes elapsed since the instant it records (utcnow() - column), so a  *)
(* value written now is 0 and every Tick adds TickMinutes to it, up to     *)
(* MaxAge, which stands for "MaxAge minutes ago or earlier".  Of a host's   *)
(* scan_completed_at, which nothing reads, only whether it is set is kept. *)
(***************************************************************************)
EXTENDS Integers, Sequences, FiniteSets, TLC

\* ------------------------------------------------------------------ bounds
MaxTicks == 1
TickMinutes == 31
MaxNetworks == 2
LiveNetworks == 1
MaxIPs == 2
MaxLiveHosts == 2
MaxPorts == 1
MaxParallelism == 2
MaxSweepScans == 2
MaxSchedules == 2
MaxSchedScans == 2
MaxSchedRows == 3
MaxClock == 1
MaxStoreScans == 2

\* ------------------------------------------------------- program constants
MAX_SCAN_TIME_HOURS == 6
MAX_STALLED_TIME_MINUTES == 30
MAX_PENDING_HOURS == 1
None == -1

\* the oldest age told apart, and datetime.utcnow() as an age
MaxAge == MaxTicks * TickMinutes
utcnow == 0

ScanIds == {1}
IPs == 1..MaxIPs
Origins == {"api", "mcp"}

PENDING == "pending"
RUNNING == "running"
COMPLETED == "completed"
FAILED == "failed"
CANCELLED == "cancelled"
SCANNING == "scanning"

ScanStatus == {PENDING, RUNNING, COMPLETED, FAILED, CANCELLED}
HostScanStatus == {PENDING, SCANNING, COMPLETED, FAILED}
Terminal == {COMPLETED, FAILED, CANCELLED}

VARIABLES
  scans,            \* scans table: id -> row
  hosts,            \* hosts table: set of rows
  ports,            \* ports table: set of rows
  artifacts,        \* artifacts table: set of rows
  fs,               \* scan output directory: path -> file content
  orch,             \* per scan: the background thread running execute_scan
  tasks,            \* per scan: the futures submitted to the worker pool
  doneQ,            \* per scan: finished futures not yet seen by as_completed
  wd,               \* the watchdog sweep in progress
  scan_parallelism, \* scan_parallelism: the settings row and each process's config
  schedules,        \* scan_schedules table: id -> row
  jobs,             \* the scheduler's job table: schedule id -> job schedule_{id}
  clock,            \* the scheduler's clock, in ticks
  fire              \* the job run the scheduler's executor has in progress

vars == <<scans, hosts, ports, artifacts, fs, orch, tasks, doneQ, wd, scan_parallelism,
          schedules, jobs, clock, fire>>

\* ------------------------------------------------------------------ helpers
Max(S) == CHOOSE x \in S : \A y \in S : y <= x
Min(S) == CHOOSE x \in S : \A y \in S : x <= y

RECURSIVE Concat(_)
Concat(qq) == IF qq = <<>> THEN <<>> ELSE Head(qq) \o Concat(Tail(qq))

\* file names: scan_{id}_discovery.xml and scan_{id}_{ip}.xml
DiscoveryPath(scan_id) == <<scan_id, 0>>
HostPath(scan_id, ip) == <<scan_id, ip>>

Malformed == [ok |-> FALSE, hosts |-> <<>>]
XmlFile(hs) == [ok |-> TRUE, hosts |-> hs]

\* a <host> element with status up, as parse_nmap_xml returns it
HostRecords == [ip : IPs, ports : 0..MaxPorts, os : BOOLEAN, mac : BOOLEAN]

\* the discovery survey (-F) does no OS detection; a host that answered only
\* on the link layer is reported with its MAC and no open port
DiscoveryRecords == {r \in HostRecords : ~r.os /\ (r.mac <=> r.ports = 0)}
DiscoveryOutputs ==
  {<<>>} \cup {<<r>> : r \in DiscoveryRecords}
         \cup {<<r1, r2>> : <<r1, r2>> \in {p \in DiscoveryRecords \X DiscoveryRecords : p[1].ip < p[2].ip}}

\* the per-host scan targets one address: no host (down), or one record
\* (of the records with open ports the one without OS match is taken)
HostScanOutputs(ip) ==
  {<<>>} \cup {<<r>> : r \in {x \in HostRecords : x.ip = ip /\ ~x.mac /\ (x.os => x.ports = 0)}}

\* the file run_host_scan returns: well-formed, or truncated
HostScanFiles(ip) == {Malformed} \cup {XmlFile(hs) : hs \in HostScanOutputs(ip)}

\* discover_hosts: up hosts with at least one open port
RECURSIVE LiveIPs(_)
LiveIPs(hs) ==
  IF hs = <<>> THEN <<>>
  ELSE (IF Head(hs).ports > 0 THEN <<Head(hs).ip>> ELSE <<>>) \o LiveIPs(Tail(hs))

ScanHosts(scan_id) == {h \in hosts : h.scan_id = scan_id}

\* query(Host).filter(scan_id, ip).first(): the row with the lowest id
HostsFor(scan_id, ip) == {h \in hosts : h.scan_id = scan_id /\ h.ip = ip}
FirstHost(scan_id, ip) == CHOOSE h \in HostsFor(scan_id, ip) : \A g \in HostsFor(scan_id, ip) : h.id <= g.id

NewHost(id, scan_id, ip) ==
  [id |-> id, scan_id |-> scan_id, ip |-> ip, scan_status |-> PENDING,
   scan_completed_at |-> None, scan_progress_percent |-> 0,
   scan_error_message |-> FALSE, ports_discovered |-> 0, os |-> FALSE, mac |-> FALSE]

HostPorts(host_id) == {p \in ports : p.host_id = host_id}

\* ------------------------------------------------------------- scans rows
\* Scan(network_range, status=PENDING, progress_percent=0, progress_message=...)
NewScan(t) ==
  [status |-> PENDING, created_at |-> t, started_at |-> None, completed_at |-> None,
   updated_at |-> t, progress_percent |-> 0, progress_message |-> "Scan queued",
   error_message |-> "none"]

\* execute_scan, "Update scan status"
ScanBegin(row, t) ==
  [row EXCEPT !.status = RUNNING, !.started_at = t, !.progress_percent = 0,
              !.progress_message = "Discovering hosts", !.updated_at = t]

\* a commit of progress_percent and progress_message
ScanProgress(row, t, percent, message) ==
  [row EXCEPT !.progress_percent = percent, !.progress_message = message, !.updated_at = t]

\* a no-live-hosts return that leaves progress_percent where discovery left it
ScanNoLiveHosts_ProgressKept(row, t) ==
  [row EXCEPT !.progress_message = "No live hosts discovered",
              !.status = COMPLETED, !.completed_at = t, !.updated_at = t]

\* execute_scan, "No live hosts discovered"
ScanNoLiveHosts(row, t) ==
  [row EXCEPT !.progress_message = "No live hosts discovered", !.progress_percent = 100,
              !.status = COMPLETED, !.completed_at = t, !.updated_at = t]

\* execute_scan, "Complete scan"
ScanCompleted(row, t) ==
  [row EXCEPT !.status = COMPLETED, !.completed_at = t, !.progress_percent = 100,
              !.progress_message = "Scan completed successfully", !.updated_at = t]

\* execute_scan, except Exception as e
ScanFailed(row, t, e) ==
  [row EXCEPT !.status = FAILED, !.completed_at = t, !.error_message = e,
              !.progress_message = "Scan failed: " \o e, !.updated_at = t]

\* a sweep that records the timeout and leaves the status as it was
ScanTimedOut_StatusKept(row, t0, t, reason) ==
  [row EXCEPT !.completed_at = t0,
              !.error_message = "Scan timeout: " \o reason, !.updated_at = t]

\* check_and_fix_stuck_scans, "Mark scan as failed with diagnostic info";
\* t0 is the sweep's utcnow, t the time of the commit
ScanTimedOut(row, t0, t, reason) ==
  [row EXCEPT !.status = FAILED, !.completed_at = t0,
              !.error_message = "Scan timeout: " \o reason, !.updated_at = t]

\* start_scan.run_scan_background, except Exception as e: the row is loaded,
\* assigned, and written only where the assignment differs from what was loaded
ScanFallback(row, t, e) ==
  IF row.status = FAILED /\ row.error_message = e THEN row
  ELSE [row EXCEPT !.status = FAILED, !.error_message = e, !.updated_at = t]

\* progress bands of execute_scan and _run_parallel_host_scans
DiscoveryProgress(idx, n) == (idx * 15) \div n
HostProgress(completed_hosts, total_hosts) == 20 + (completed_hosts * 70) \div total_hosts

\* scan_parallelism where it is kept: the value config.settings is built
\* with at the start of a process (default), the value of the settings row
\* (None while there is no row), and config.settings.scan_parallelism in the
\* API process (api), which also runs the scheduler, and in the query
\* server process (mcp)
Config(w) == [default |-> w, setting |-> None, api |-> w, mcp |-> w]

\* --------------------------------------------------------- execution state
NewOrch(origin, n) ==
  [pc |-> "idle", origin |-> origin, networks |-> n, idx |-> 0,
   all_live_ips |-> <<>>, all_discovery_xmls |-> <<>>, per_host_xmls |-> <<>>,
   completed_hosts |-> 0, hosts_data |-> <<>>, max_workers |-> 0, exc |-> "none"]

\* the exception leaves execute_scan after the handler has committed
Raise(s, e) ==
  /\ scans' = [scans EXCEPT ![s] = ScanFailed(@, utcnow, e)]
  /\ orch' = [orch EXCEPT ![s] = [@ EXCEPT !.pc = "raised", !.exc = e]]

\* POST /api/scans and the query server's start_scan: insert the row, start
\* the background thread
CreateScan(origin, n) ==
  /\ \E s \in ScanIds \ DOMAIN scans :
       /\ \A x \in ScanIds \ DOMAIN scans : s <= x
       /\ scans' = scans @@ (s :> NewScan(utcnow))
       /\ orch' = orch @@ (s :> NewOrch(origin, n))
       /\ tasks' = tasks @@ (s :> <<>>)
       /\ doneQ' = doneQ @@ (s :> <<>>)
  /\ UNCHANGED <<hosts, ports, artifacts, fs, wd, scan_parallelism, schedules, jobs, clock, fire>>

\* the Store raises on execute_scan's load of the scan row, which is outside
\* the try block: the exception leaves execute_scan with nothing written
ExecuteLoadError(s) ==
  /\ s \in DOMAIN scans
  /\ orch[s].pc = "idle"
  /\ orch' = [orch EXCEPT ![s] = [@ EXCEPT !.pc = "raised", !.exc = "store error"]]
  /\ UNCHANGED <<scans, hosts, ports, artifacts, fs, tasks, doneQ, wd, scan_parallelism, schedules, jobs, clock, fire>>

\* execute_scan up to the first discover_hosts call
ExecuteBegin(s) ==
  /\ s \in DOMAIN scans
  /\ orch[s].pc = "idle"
  /\ scans' = [scans EXCEPT ![s] = ScanBegin(@, utcnow)]
  /\ orch' = [orch EXCEPT ![s] = [@ EXCEPT !.pc = "discover", !.idx = 0]]
  /\ UNCHANGED <<hosts, ports, artifacts, fs, tasks, doneQ, wd, scan_parallelism, schedules, jobs, clock, fire>>

\* what follows the discovery loop: no live host, or "Creating host records"
AfterDiscovery(row, t, live) ==
  IF live = <<>> THEN ScanNoLiveHosts(row, t)
  ELSE ScanProgress(row, t, 18, "Creating host records")

\* discover_hosts returns for network idx; the loop goes on with the next
\* network or leaves for the no-live-hosts return or host creation
DiscoverOk(s, out) ==
  LET o == orch[s]
      live == o.all_live_ips \o LiveIPs(out)
      xmls == Append(o.all_discovery_xmls, DiscoveryPath(s))
      last == o.idx + 1 = o.networks
  IN /\ s \in DOMAIN scans
     /\ o.pc = "discover"
     /\ Len(live) <= MaxLiveHosts
     /\ fs' = (DiscoveryPath(s) :> XmlFile(out)) @@ fs
     /\ scans' = [scans EXCEPT ![s] =
          IF last THEN AfterDiscovery(@, utcnow, live)
          ELSE ScanProgress(@, utcnow, DiscoveryProgress(o.idx + 1, o.networks), "Discovering hosts")]
     /\ orch' = [orch EXCEPT ![s] =
          [@ EXCEPT !.all_live_ips = live, !.all_discovery_xmls = xmls, !.idx = o.idx + 1,
                    !.pc = IF ~last THEN "discover"
                           ELSE IF live = <<>> THEN "returned" ELSE "create_hosts"]]
     /\ UNCHANGED <<hosts, ports, artifacts, tasks, doneQ, wd, scan_parallelism, schedules, jobs, clock, fire>>

\* discover_hosts raises: the tool cannot be run or exits non-zero
DiscoverError(s) ==
  /\ s \in DOMAIN scans
  /\ orch[s].pc = "discover"
  /\ Raise(s, "discovery error")
  /\ UNCHANGED <<hosts, ports, artifacts, fs, tasks, doneQ, wd, scan_parallelism, schedules, jobs, clock, fire>>

\* discover_hosts raises because the tool was terminated; the terminated run
\* leaves a truncated output file
DiscoverKilled(s) ==
  /\ s \in DOMAIN scans
  /\ orch[s].pc = "discover_killed"
  /\ fs' = (DiscoveryPath(s) :> Malformed) @@ fs
  /\ Raise(s, "discovery error")
  /\ UNCHANGED <<hosts, ports, artifacts, tasks, doneQ, wd, scan_parallelism, schedules, jobs, clock, fire>>

\* "Create host records immediately with PENDING status"
RECURSIVE AddHosts(_, _, _)
AddHosts(H, scan_id, ips) ==
  IF ips = <<>> THEN H
  ELSE LET id == IF H = {} THEN 1 ELSE Max({h.id : h \in H}) + 1
       IN AddHosts(H \cup {NewHost(id, scan_id, Head(ips))}, scan_id, Tail(ips))

CreateHostRecords(s) ==
  /\ s \in DOMAIN scans
  /\ orch[s].pc = "create_hosts"
  /\ hosts' = AddHosts(hosts, s, orch[s].all_live_ips)
  /\ orch' = [orch EXCEPT ![s] = [@ EXCEPT !.pc = "start_hosts"]]
  /\ UNCHANGED <<scans, ports, artifacts, fs, tasks, doneQ, wd, scan_parallelism, schedules, jobs, clock, fire>>

\* "Starting detailed scans", then the pool is created and every IP submitted
StartHostScans(s) ==
  /\ s \in DOMAIN scans
  /\ orch[s].pc = "start_hosts"
  /\ scans' = [scans EXCEPT ![s] = ScanProgress(@, utcnow, 20, "Starting detailed scans")]
  /\ orch' = [orch EXCEPT ![s] = [@ EXCEPT !.pc = "collect", !.max_workers =
       IF orch[s].origin = "mcp" THEN scan_parallelism.mcp ELSE scan_parallelism.api]]
  /\ tasks' = [tasks EXCEPT ![s] =
       [i \in 1..Len(orch[s].all_live_ips) |-> [ip |-> orch[s].all_live_ips[i], st |-> "queued", ok |-> FALSE]]]
  /\ UNCHANGED <<hosts, ports, artifacts, fs, doneQ, wd, scan_parallelism, schedules, jobs, clock, fire>>

\* ------------------------------------------------------- scan_single_host
Replace(H, old, new) == (H \ {old}) \cup {new}

\* "Mark as scanning"
HostScanning(h, t) ==
  [h EXCEPT !.scan_status = SCANNING, !.scan_progress_percent = 50]

\* "Update host with discovered details", "Mark as completed"
HostCompleted(h, t, host_data) ==
  [h EXCEPT !.mac = host_data.mac, !.os = host_data.os,
            !.ports_discovered = host_data.ports,
            !.scan_status = COMPLETED, !.scan_completed_at = t, !.scan_progress_percent = 100]

\* except Exception as parse_error: "Still mark as completed even if parsing failed"
HostParseFailed(h, t) ==
  [h EXCEPT !.scan_status = COMPLETED, !.scan_completed_at = t, !.scan_progress_percent = 100]

\* except Exception as e: "Mark as failed"
HostFailed(h, t) ==
  [h EXCEPT !.scan_status = FAILED, !.scan_completed_at = t, !.scan_error_message = TRUE,
            !.scan_progress_percent = 0]

\* the worker's handling of the file run_host_scan returned
HostParsed(h, t, file) ==
  IF ~file.ok THEN HostParseFailed(h, t)
  ELSE IF file.hosts = <<>> THEN h
  ELSE HostCompleted(h, t, file.hosts[1])

\* the hosts table after a worker has committed its row as new; a worker
\* that finds no row writes nothing
UpdateHost(scan_id, ip, new) ==
  IF HostsFor(scan_id, ip) = {} THEN hosts
  ELSE Replace(hosts, FirstHost(scan_id, ip), new)

Running(s) == {i \in DOMAIN tasks[s] : tasks[s][i].st \in {"nmap", "killed"}}

\* a pool thread takes the next queued IP, marks the host and starts the tool
WorkerStart(s, i) ==
  /\ s \in DOMAIN scans
  /\ orch[s].pc = "collect"
  /\ i \in DOMAIN tasks[s]
  /\ tasks[s][i].st = "queued"
  /\ \A j \in 1..(i - 1) : tasks[s][j].st # "queued"
  /\ Cardinality(Running(s)) < orch[s].max_workers
  /\ hosts' = UpdateHost(s, tasks[s][i].ip, HostScanning(FirstHost(s, tasks[s][i].ip), utcnow))
  /\ tasks' = [tasks EXCEPT ![s][i].st = "nmap"]
  /\ UNCHANGED <<scans, ports, artifacts, fs, orch, doneQ, wd, scan_parallelism, schedules, jobs, clock, fire>>

Finish(s, i, ok) ==
  /\ tasks' = [tasks EXCEPT ![s][i] = [@ EXCEPT !.st = "done", !.ok = ok]]
  /\ doneQ' = [doneQ EXCEPT ![s] = Append(@, i)]

\* run_host_scan returned its output file; the worker parses it at once
WorkerScanned(s, i, file) ==
  /\ s \in DOMAIN scans
  /\ i \in DOMAIN tasks[s]
  /\ tasks[s][i].st = "nmap"
  /\ file \in HostScanFiles(tasks[s][i].ip)
  /\ fs' = (HostPath(s, tasks[s][i].ip) :> file) @@ fs
  /\ hosts' = UpdateHost(s, tasks[s][i].ip, HostParsed(FirstHost(s, tasks[s][i].ip), utcnow, file))
  /\ Finish(s, i, TRUE)
  /\ UNCHANGED <<scans, ports, artifacts, orch, wd, scan_parallelism, schedules, jobs, clock, fire>>

RemoveFile(path) == [q \in DOMAIN fs \ {path} |-> fs[q]]

\* run_host_scan raises: non-zero exit or no output file (kind "error", a
\* terminated run leaves a truncated file), or the 300 s timeout (kind
\* "timeout", the partial file is removed)
WorkerFailed(s, i, kind) ==
  /\ s \in DOMAIN scans
  /\ i \in DOMAIN tasks[s]
  /\ \/ tasks[s][i].st = "nmap"
     \/ tasks[s][i].st = "killed" /\ kind = "error"
  /\ fs' = IF kind = "timeout" THEN RemoveFile(HostPath(s, tasks[s][i].ip))
           ELSE IF tasks[s][i].st = "killed" THEN (HostPath(s, tasks[s][i].ip) :> Malformed) @@ fs
           ELSE fs
  /\ hosts' = UpdateHost(s, tasks[s][i].ip, HostFailed(FirstHost(s, tasks[s][i].ip), utcnow))
  /\ Finish(s, i, FALSE)
  /\ UNCHANGED <<scans, ports, artifacts, orch, wd, scan_parallelism, schedules, jobs, clock, fire>>

\* run_host_scan returned its output file and a Store write of the worker
\* raises (the session rolls the failed commit back).  For a file with a host
\* element the first write is the update with the details: its exception
\* reaches the inner handler, which marks the row completed (handled) or
\* whose own commit raises as well.  For a file that does not parse the
\* inner handler's commit is the first write.  An exception raised inside
\* the inner handler reaches the outer one, which marks the row failed and
\* returns None.  A file without host element makes the worker write nothing.
WorkerStoreError(s, i, file, handled) ==
  /\ s \in DOMAIN scans
  /\ i \in DOMAIN tasks[s]
  /\ tasks[s][i].st = "nmap"
  /\ file \in HostScanFiles(tasks[s][i].ip)
  /\ IF file.ok THEN file.hosts # <<>> ELSE ~handled
  /\ HostsFor(s, tasks[s][i].ip) # {}
  /\ fs' = (HostPath(s, tasks[s][i].ip) :> file) @@ fs
  /\ hosts' = UpdateHost(s, tasks[s][i].ip,
                 IF handled THEN HostParseFailed(FirstHost(s, tasks[s][i].ip), utcnow)
                 ELSE HostFailed(FirstHost(s, tasks[s][i].ip), utcnow))
  /\ Finish(s, i, handled)
  /\ UNCHANGED <<scans, ports, artifacts, orch, wd, scan_parallelism, schedules, jobs, clock, fire>>

\* as_completed yields a finished future: "Completed k/n hosts"
CollectResult(s) ==
  /\ s \in DOMAIN scans
  /\ orch[s].pc = "collect"
  /\ doneQ[s] # <<>>
  /\ LET i == Head(doneQ[s])
         o == orch[s]
         xmls == IF tasks[s][i].ok THEN Append(o.per_host_xmls, HostPath(s, tasks[s][i].ip))
                 ELSE o.per_host_xmls
     IN /\ orch' = [orch EXCEPT ![s] = [@ EXCEPT !.per_host_xmls = xmls,
                                                 !.completed_hosts = o.completed_hosts + 1]]
        /\ scans' = [scans EXCEPT ![s] =
             ScanProgress(@, utcnow, HostProgress(o.completed_hosts + 1, Len(o.all_live_ips)), "Completed hosts")]
  /\ doneQ' = [doneQ EXCEPT ![s] = Tail(@)]
  /\ UNCHANGED <<hosts, ports, artifacts, fs, tasks, wd, scan_parallelism, schedules, jobs, clock, fire>>

\* a collection loop that goes on to parsing once one result was collected
PoolDrained_Early(s) ==
  /\ s \in DOMAIN scans
  /\ orch[s].pc = "collect"
  /\ orch[s].completed_hosts >= 1
  /\ scans' = [scans EXCEPT ![s] = ScanProgress(@, utcnow, 50, "Parsing scan results")]
  /\ orch' = [orch EXCEPT ![s] = [@ EXCEPT !.pc = "parse"]]
  /\ UNCHANGED <<hosts, ports, artifacts, fs, tasks, doneQ, wd, scan_parallelism, schedules, jobs, clock, fire>>

\* the pool has drained: "Parsing scan results..."
PoolDrained(s) ==
  /\ s \in DOMAIN scans
  /\ orch[s].pc = "collect"
  /\ orch[s].completed_hosts = Len(tasks[s])
  /\ scans' = [scans EXCEPT ![s] = ScanProgress(@, utcnow, 50, "Parsing scan results")]
  /\ orch' = [orch EXCEPT ![s] = [@ EXCEPT !.pc = "parse"]]
  /\ UNCHANGED <<hosts, ports, artifacts, fs, tasks, doneQ, wd, scan_parallelism, schedules, jobs, clock, fire>>

\* ------------------------------------------- reconciliation and persistence
\* a deduplication in which a later record with as many ports wins
RECURSIVE Dedup_LastWins(_, _)
Dedup_LastWins(hs, acc) ==
  IF hs = <<>> THEN acc
  ELSE LET r == Head(hs)
           at == {k \in 1..Len(acc) : acc[k].ip = r.ip}
       IN IF at = {} THEN Dedup_LastWins(Tail(hs), Append(acc, r))
          ELSE LET k == CHOOSE x \in at : TRUE
               IN IF r.ports >= acc[k].ports THEN Dedup_LastWins(Tail(hs), [acc EXCEPT ![k] = r])
                  ELSE Dedup_LastWins(Tail(hs), acc)

\* "Deduplicate hosts by IP (keep the one with most ports ... or first if equal)"
RECURSIVE Dedup(_, _)
Dedup(hs, acc) ==
  IF hs = <<>> THEN acc
  ELSE LET r == Head(hs)
           at == {k \in 1..Len(acc) : acc[k].ip = r.ip}
       IN IF at = {} THEN Dedup(Tail(hs), Append(acc, r))
          ELSE LET k == CHOOSE x \in at : TRUE
               IN IF r.ports > acc[k].ports THEN Dedup(Tail(hs), [acc EXCEPT ![k] = r])
                  ELSE Dedup(Tail(hs), acc)

\* "only keep hosts with actual data"
HasData(host_data) == host_data.ports > 0 \/ host_data.os \/ host_data.mac

Readable(paths) == \A k \in 1..Len(paths) : paths[k] \in DOMAIN fs /\ fs[paths[k]].ok

ParseAll(paths) == Concat([k \in 1..Len(paths) |-> fs[paths[k]].hosts])

\* "Remove any pre-created Host rows that didn't pass the filter"
StaleHosts(scan_id, filtered_ips) ==
  IF filtered_ips = {} THEN {}
  ELSE {h \in ScanHosts(scan_id) : h.ip \notin filtered_ips}

\* every output file parses: dedup, filter, stale rows deleted, "Saving to database..."
Reconcile(s) ==
  LET o == orch[s]
      xmls == o.all_discovery_xmls \o o.per_host_xmls
      filtered == SelectSeq(Dedup(ParseAll(xmls), <<>>), HasData)
      stale == StaleHosts(s, {filtered[k].ip : k \in 1..Len(filtered)})
  IN /\ s \in DOMAIN scans
     /\ o.pc = "parse"
     /\ Readable(xmls)
     /\ hosts' = hosts \ stale
     /\ ports' = {p \in ports : p.host_id \notin {h.id : h \in stale}}
     /\ scans' = [scans EXCEPT ![s] = ScanProgress(@, utcnow, 60, "Saving to database")]
     /\ orch' = [orch EXCEPT ![s] = [@ EXCEPT !.pc = "save", !.hosts_data = filtered]]
     /\ UNCHANGED <<artifacts, fs, tasks, doneQ, wd, scan_parallelism, schedules, jobs, clock, fire>>

\* parse_nmap_xml raises on a missing or truncated file
ReconcileError(s) ==
  /\ s \in DOMAIN scans
  /\ orch[s].pc = "parse"
  /\ ~Readable(orch[s].all_discovery_xmls \o orch[s].per_host_xmls)
  /\ Raise(s, "parse error")
  /\ UNCHANGED <<hosts, ports, artifacts, fs, tasks, doneQ, wd, scan_parallelism, schedules, jobs, clock, fire>>

\* _save_hosts_to_db: update the row of each record (or add one), add its ports
RECURSIVE SaveHostsToDb(_, _, _, _)
SaveHostsToDb(scan_id, hosts_data, H, P) ==
  IF hosts_data = <<>> THEN [hosts |-> H, ports |-> P]
  ELSE LET d == Head(hosts_data)
           found == {h \in H : h.scan_id = scan_id /\ h.ip = d.ip}
           host == IF found = {}
                   THEN NewHost(IF H = {} THEN 1 ELSE Max({h.id : h \in H}) + 1, scan_id, d.ip)
                   ELSE CHOOSE h \in found : \A g \in found : h.id <= g.id
           saved == [host EXCEPT !.mac = d.mac, !.os = d.os, !.ports_discovered = d.ports]
       IN SaveHostsToDb(scan_id, Tail(hosts_data), (H \ {host}) \cup {saved},
                        P \cup {[host_id |-> host.id, port |-> k] : k \in 1..d.ports})

SaveHosts(s) ==
  /\ s \in DOMAIN scans
  /\ orch[s].pc = "save"
  /\ LET r == SaveHostsToDb(s, orch[s].hosts_data, hosts, ports)
     IN hosts' = r.hosts /\ ports' = r.ports
  /\ orch' = [orch EXCEPT ![s] = [@ EXCEPT !.pc = "reports"]]
  /\ UNCHANGED <<scans, artifacts, fs, tasks, doneQ, wd, scan_parallelism, schedules, jobs, clock, fire>>

\* the Store refuses a write of _save_hosts_to_db.  The except clause of
\* execute_scan assigns the failure to the row and commits on the same
\* session: that commit goes through (committed), or it raises in its turn
\* because the session still holds the failed transaction, and the exception
\* leaves execute_scan with nothing written
SaveHostsError(s, committed) ==
  /\ s \in DOMAIN scans
  /\ orch[s].pc = "save"
  /\ IF committed THEN Raise(s, "store error")
     ELSE /\ orch' = [orch EXCEPT ![s] = [@ EXCEPT !.pc = "raised", !.exc = "pending rollback"]]
          /\ UNCHANGED scans
  /\ UNCHANGED <<hosts, ports, artifacts, fs, tasks, doneQ, wd, scan_parallelism, schedules, jobs, clock, fire>>

Artifact(scan_id, type, n) == [scan_id |-> scan_id, type |-> type, n |-> n]

\* the rows _save_artifact adds on the way to "Complete scan"
ReportArtifacts(scan_id, graph, xmls) ==
  {Artifact(scan_id, "html", 0), Artifact(scan_id, "xlsx", 0)}
    \cup (IF graph THEN {Artifact(scan_id, ty, 0) : ty \in {"dot", "png", "svg"}} ELSE {})
    \cup {Artifact(scan_id, "xml", k) : k \in 1..Len(xmls)}

\* file names of the reports: scan_{id}.html, .xlsx, .dot, .png, .svg
ReportPath(scan_id, type) ==
  <<scan_id, IF type = "html" THEN -1 ELSE IF type = "xlsx" THEN -2
             ELSE IF type = "dot" THEN -3 ELSE IF type = "png" THEN -4 ELSE -5>>

\* the files the generators write (none of them parses as scan output)
ReportFiles(scan_id, graph) ==
  [q \in {ReportPath(scan_id, ty) :
            ty \in {"html", "xlsx"} \cup (IF graph THEN {"dot", "png", "svg"} ELSE {})} |-> Malformed]

\* artifact.file_path: the path _save_artifact was given
FilePath(a) == IF a.type = "xml" THEN DiscoveryPath(a.scan_id) ELSE ReportPath(a.scan_id, a.type)

\* "Generating reports...": the generators run, every file gets its row
GenerateReports(s, graph) ==
  /\ s \in DOMAIN scans
  /\ orch[s].pc = "reports"
  /\ scans' = [scans EXCEPT ![s] = ScanProgress(@, utcnow, 70, "Generating reports")]
  /\ artifacts' = artifacts \cup ReportArtifacts(s, graph, orch[s].all_discovery_xmls)
  /\ fs' = ReportFiles(s, graph) @@ fs
  /\ orch' = [orch EXCEPT ![s] = [@ EXCEPT !.pc = "finalize"]]
  /\ UNCHANGED <<hosts, ports, tasks, doneQ, wd, scan_parallelism, schedules, jobs, clock, fire>>

\* a generator raises: the HTML one (no row yet) or the spreadsheet one
ReportError(s, html_done) ==
  /\ s \in DOMAIN scans
  /\ orch[s].pc = "reports"
  /\ artifacts' = IF html_done THEN artifacts \cup {Artifact(s, "html", 0)} ELSE artifacts
  /\ fs' = IF html_done THEN (ReportPath(s, "html") :> Malformed) @@ fs ELSE fs
  /\ scans' = [scans EXCEPT ![s] = ScanFailed(ScanProgress(@, utcnow, 70, "Generating reports"), utcnow, "report error")]
  /\ orch' = [orch EXCEPT ![s] = [@ EXCEPT !.pc = "raised", !.exc = "report error"]]
  /\ UNCHANGED <<hosts, ports, tasks, doneQ, wd, scan_parallelism, schedules, jobs, clock, fire>>

\* "Complete scan"
Finalize(s) ==
  /\ s \in DOMAIN scans
  /\ orch[s].pc = "finalize"
  /\ scans' = [scans EXCEPT ![s] = ScanCompleted(@, utcnow)]
  /\ orch' = [orch EXCEPT ![s] = [@ EXCEPT !.pc = "returned"]]
  /\ UNCHANGED <<hosts, ports, artifacts, fs, tasks, doneQ, wd, scan_parallelism, schedules, jobs, clock, fire>>

\* the except clause of the thread body that called execute_scan: the API's
\* run_scan_background only logs, the query server's writes the row again,
\* through the session execute_scan used (a session that holds a failed
\* transaction refuses the query, and the thread ends)
BackgroundExcept(s) ==
  /\ s \in DOMAIN scans
  /\ orch[s].pc = "raised"
  /\ scans' = [scans EXCEPT ![s] =
       IF orch[s].origin = "mcp" /\ orch[s].exc # "pending rollback"
       THEN ScanFallback(@, utcnow, orch[s].exc) ELSE @]
  /\ orch' = [orch EXCEPT ![s] = [@ EXCEPT !.pc = "handled"]]
  /\ UNCHANGED <<hosts, ports, artifacts, fs, tasks, doneQ, wd, scan_parallelism, schedules, jobs, clock, fire>>

\* ---------------------------------------------------------------- watchdog
\* the checks with a stalled limit that is reached at 30 minutes sharp
StuckReason_AtLimit(row, t) ==
  IF row.started_at # None /\ row.started_at - t > MAX_SCAN_TIME_HOURS * 60
    THEN "exceeded maximum runtime"
  ELSE IF row.updated_at # None /\ row.updated_at - t >= MAX_STALLED_TIME_MINUTES
    THEN "no progress"
  ELSE IF row.status = PENDING /\ row.created_at # None /\ row.created_at - t > MAX_PENDING_HOURS * 60
    THEN "stuck in pending"
  ELSE "none"

\* the three checks of check_and_fix_stuck_scans on a loaded row, in order
StuckReason(row, t) ==
  IF row.started_at # None /\ row.started_at - t > MAX_SCAN_TIME_HOURS * 60
    THEN "exceeded maximum runtime"
  ELSE IF row.updated_at # None /\ row.updated_at - t > MAX_STALLED_TIME_MINUTES
    THEN "no progress"
  ELSE IF row.status = PENDING /\ row.created_at # None /\ row.created_at - t > MAX_PENDING_HOURS * 60
    THEN "stuck in pending"
  ELSE "none"

RECURSIVE SortedSeq(_)
SortedSeq(S) == IF S = {} THEN <<>> ELSE <<Min(S)>> \o SortedSeq(S \ {Min(S)})

\* f"scan_{scan_id}" in arg, for an output path scan_{p}_... on the command line
RECURSIVE IsDecimalPrefix(_, _)
IsDecimalPrefix(a, b) == a = b \/ (b >= 10 /\ IsDecimalPrefix(a, b \div 10))
CmdlineMatches(scan_id, p) == IsDecimalPrefix(scan_id, p)

WdIdle == [pc |-> "idle", now |-> None, stuck |-> <<>>, k |-> 0]

\* the scans a sweep at time t finds stuck among the pending and running ones
\* it loads, each with the reason
StuckScans(t) ==
  LET loaded == {s \in DOMAIN scans : scans[s].status \in {RUNNING, PENDING}}
      stuck == SortedSeq({s \in loaded : StuckReason(scans[s], t) # "none"})
  IN [j \in 1..Len(stuck) |-> [id |-> stuck[j], reason |-> StuckReason(scans[stuck[j]], t)]]

\* the sweep loads the pending and running scans and decides from what it loaded
WatchdogBegin ==
  /\ wd.pc = "idle"
  /\ wd' = IF StuckScans(utcnow) = <<>> THEN WdIdle
           ELSE [pc |-> "kill", now |-> utcnow, k |-> 1, stuck |-> StuckScans(utcnow)]
  /\ UNCHANGED <<scans, hosts, ports, artifacts, fs, orch, tasks, doneQ, scan_parallelism, schedules, jobs, clock, fire>>

\* diagnose_stuck_scan, then kill_nmap_processes for the next stuck scan
WatchdogKill ==
  /\ wd.pc = "kill"
  /\ LET id == wd.stuck[wd.k].id
     IN /\ orch' = [s \in DOMAIN orch |->
                     IF CmdlineMatches(id, s) /\ orch[s].pc = "discover"
                     THEN [orch[s] EXCEPT !.pc = "discover_killed"] ELSE orch[s]]
        /\ tasks' = [s \in DOMAIN tasks |->
                     IF CmdlineMatches(id, s)
                     THEN [i \in DOMAIN tasks[s] |->
                            IF tasks[s][i].st = "nmap" THEN [tasks[s][i] EXCEPT !.st = "killed"] ELSE tasks[s][i]]
                     ELSE tasks[s]]
  /\ wd' = [wd EXCEPT !.k = wd.k + 1, !.pc = IF wd.k = Len(wd.stuck) THEN "commit" ELSE "kill"]
  /\ UNCHANGED <<scans, hosts, ports, artifacts, fs, doneQ, scan_parallelism, schedules, jobs, clock, fire>>

\* the scans table after the sweep's db.commit(): one UPDATE per scan marked
SweepCommitted ==
  LET marked == {j \in 1..Len(wd.stuck) : wd.stuck[j].id \in DOMAIN scans}
      Reason(s) == wd.stuck[CHOOSE j \in marked : wd.stuck[j].id = s].reason
  IN [s \in DOMAIN scans |->
       IF \E j \in marked : wd.stuck[j].id = s
       THEN ScanTimedOut(scans[s], wd.now, utcnow, Reason(s)) ELSE scans[s]]

\* the value the sweep in progress returns
fixed_count == Len(wd.stuck)

\* db.commit(), return fixed_count
WatchdogCommit ==
  /\ wd.pc = "commit"
  /\ scans' = SweepCommitted
  /\ wd' = WdIdle
  /\ UNCHANGED <<hosts, ports, artifacts, fs, orch, tasks, doneQ, scan_parallelism, schedules, jobs, clock, fire>>

\* a timestamp after TickMinutes more have passed
Older(ts) == IF ts = None THEN None ELSE Min({ts + TickMinutes, MaxAge})

\* time passes: every recorded instant lies TickMinutes further back
Tick ==
  /\ scans' = [s \in DOMAIN scans |->
       [scans[s] EXCEPT !.created_at = Older(@), !.started_at = Older(@),
                        !.completed_at = Older(@), !.updated_at = Older(@)]]
  /\ wd' = [wd EXCEPT !.now = Older(@)]
  /\ UNCHANGED <<hosts, ports, artifacts, fs, orch, tasks, doneQ, scan_parallelism, schedules, jobs, clock, fire>>

FireIdle == [pc |-> "idle", id |-> None, scan |-> None]

\* ------------------------------------------------------------ specification
Init ==
  /\ scans = <<>>
  /\ hosts = {}
  /\ ports = {}
  /\ artifacts = {}
  /\ fs = <<>>
  /\ orch = <<>>
  /\ tasks = <<>>
  /\ doneQ = <<>>
  /\ wd = WdIdle
  /\ \E w \in 1..MaxParallelism : scan_parallelism = Config(w)
  /\ schedules = <<>> /\ jobs = <<>> /\ clock = 0 /\ fire = FireIdle

TaskIds == 1..MaxLiveHosts
AllHostScanFiles == UNION {HostScanFiles(ip) : ip \in IPs}
FailureKinds == {"error", "timeout"}

\* the steps the thread of a scan and its pool workers take once scheduled:
\* Store and file operations, and the per-host subprocess returning, failing
\* or reaching its timeout
ThreadStep(s) ==
  \/ ExecuteBegin(s)
  \/ DiscoverKilled(s)
  \/ CreateHostRecords(s)
  \/ StartHostScans(s)
  \/ \E i \in TaskIds : WorkerStart(s, i)
  \/ \E i \in TaskIds : \E file \in AllHostScanFiles : WorkerScanned(s, i, file)
  \/ \E i \in TaskIds : \E kind \in FailureKinds : WorkerFailed(s, i, kind)
  \/ CollectResult(s)
  \/ PoolDrained(s)
  \/ Reconcile(s)
  \/ ReconcileError(s)
  \/ SaveHosts(s)
  \/ \E committed \in BOOLEAN : SaveHostsError(s, committed)
  \/ \E graph \in BOOLEAN : GenerateReports(s, graph)
  \/ \E html_done \in BOOLEAN : ReportError(s, html_done)
  \/ Finalize(s)
  \/ BackgroundExcept(s)

\* everything but the submission of scans
Run ==
  \/ \E s \in ScanIds : ExecuteLoadError(s)
  \/ \E s \in ScanIds : ExecuteBegin(s)
  \/ \E s \in ScanIds : \E out \in DiscoveryOutputs : DiscoverOk(s, out)
  \/ \E s \in ScanIds : DiscoverError(s)
  \/ \E s \in ScanIds : DiscoverKilled(s)
  \/ \E s \in ScanIds : CreateHostRecords(s)
  \/ \E s \in ScanIds : StartHostScans(s)
  \/ \E s \in ScanIds : \E i \in TaskIds : WorkerStart(s, i)
  \/ \E s \in ScanIds : \E i \in TaskIds : \E file \in AllHostScanFiles : WorkerScanned(s, i, file)
  \/ \E s \in ScanIds : \E i \in TaskIds : \E kind \in FailureKinds : WorkerFailed(s, i, kind)
  \/ \E s \in ScanIds : CollectResult(s)
  \/ \E s \in ScanIds : PoolDrained(s)
  \/ \E s \in ScanIds : Reconcile(s)
  \/ \E s \in ScanIds : ReconcileError(s)
  \/ \E s \in ScanIds : SaveHosts(s)
  \/ \E s \in ScanIds : \E committed \in BOOLEAN : SaveHostsError(s, committed)
  \/ \E s \in ScanIds : \E graph \in BOOLEAN : GenerateReports(s, graph)
  \/ \E s \in ScanIds : \E html_done \in BOOLEAN : ReportError(s, html_done)
  \/ \E s \in ScanIds : Finalize(s)
  \/ \E s \in ScanIds : BackgroundExcept(s)
  \/ WatchdogBegin
  \/ WatchdogKill
  \/ WatchdogCommit
  \/ Tick

Next ==
  \/ \E origin \in Origins : \E n \in 1..MaxNetworks : CreateScan(origin, n)
  \/ Run

Spec == Init /\ [][Next]_vars

\* the scans of one network under Store failures inside the pool workers
WorkerSpec ==
  /\ Init
  /\ [][\/ \E origin \in Origins : CreateScan(origin, LiveNetworks)
        \/ Run
        \/ \E s \in ScanIds : \E i \in TaskIds : \E file \in AllHostScanFiles :
             \E handled \in BOOLEAN : WorkerStoreError(s, i, file, handled)]_vars

\* the liveness specification, for scans over LiveNetworks network(s): the
\* thread of a scan and its pool workers keep being scheduled, the periodic
\* watchdog job keeps running and time keeps passing; nothing is assumed of
\* the discovery subprocess, which may never end by itself
LiveNext ==
  \/ \E origin \in Origins : \E n \in 1..LiveNetworks : CreateScan(origin, n)
  \/ Run

Watchdog == WatchdogBegin \/ WatchdogKill \/ WatchdogCommit

LiveSpec ==
  /\ Init /\ [][LiveNext]_vars
  /\ \A s \in ScanIds : WF_vars(ThreadStep(s))
  /\ WF_vars(Watchdog)
  /\ WF_vars(Tick)

\* ------------------------------------------------------- POST /api/scans
\* The response to a request body whose networks field is given (a list) or
\* not (omitted or null), with what detect_current_network returns ("" for
\* no network): 422 from ScanCreate.validate_networks, which refuses an
\* empty list and every string ipaddress.ip_network refuses ("x"), 400 when
\* there is neither a list nor a detected network, else 201 and the networks
\* the scan is created for
create_scan(given, networks, detected) ==
  IF given /\ (networks = <<>> \/ \E k \in 1..Len(networks) : networks[k] = "x")
    THEN [status |-> 422, networks |-> <<>>]
  ELSE IF ~given \/ Len(networks) = 0
    THEN (IF detected # "" THEN [status |-> 201, networks |-> <<detected>>]
          ELSE [status |-> 400, networks |-> <<>>])
  ELSE [status |-> 201, networks |-> networks]

\* a request the handler completes: the row is inserted, the thread started;
\* a refused request changes nothing
ApiCreateScan(given, networks, detected) ==
  /\ create_scan(given, networks, detected).status = 201
  /\ CreateScan("api", Len(create_scan(given, networks, detected).networks))

\* requests of every kind, and each scan's thread up to the end of discovery
RequestSpec ==
  /\ Init
  /\ [][\/ \E given \in BOOLEAN : \E detected \in {"", "a"} :
            \E networks \in {<<>>, <<"a">>, <<"a", "b">>, <<"x">>} :
              ApiCreateScan(given, networks, detected)
        \/ \E s \in ScanIds : ExecuteLoadError(s)
        \/ \E s \in ScanIds : ExecuteBegin(s)
        \/ \E s \in ScanIds : \E out \in DiscoveryOutputs : DiscoverOk(s, out)
        \/ \E s \in ScanIds : DiscoverError(s)]_vars

\* ---------------------------------------------------------------- settings
\* PUT /api/settings: both keys are written to the settings table, then the
\* config object of the API process is assigned (data_retention_days is
\* read from its row by the cleanup job only)
ApiUpdateSettings(v) ==
  /\ scan_parallelism' = [scan_parallelism EXCEPT !.setting = v, !.api = v]
  /\ UNCHANGED <<scans, hosts, ports, artifacts, fs, orch, tasks, doneQ, wd, schedules, jobs, clock, fire>>

\* the API process is stopped and started again while none of its threads
\* is at work: config.settings is built anew, the Store is as it was
RestartApi ==
  /\ \A s \in DOMAIN orch : orch[s].origin # "mcp" => orch[s].pc \in {"returned", "handled"}
  /\ wd.pc = "idle" /\ fire.pc = "idle"
  /\ scan_parallelism' = [scan_parallelism EXCEPT !.api = scan_parallelism.default]
  /\ UNCHANGED <<scans, hosts, ports, artifacts, fs, orch, tasks, doneQ, wd, schedules, jobs, clock, fire>>

\* scans over LiveNetworks network(s) while the settings are changed
SettingsSpec ==
  /\ Init
  /\ [][\/ \E origin \in Origins : \E n \in 1..LiveNetworks : CreateScan(origin, n)
        \/ Run
        \/ \E v \in 1..MaxParallelism : ApiUpdateSettings(v)
        \/ RestartApi]_vars

\* --------------------------------------------------- the sweep on any Store
\* A second specification for the watchdog alone: check_and_fix_stuck_scans
\* run on a Store holding MaxSweepScans scans whose rows are drawn from the
\* rows an execution leaves behind, with ages on both sides of each threshold.
SweepAges == {0, 30, 31, 60, 61, 360, 361}

\* a scan created c minutes ago, started st minutes ago, last written u ago
RunningRow(c, st, u) == [ScanBegin(NewScan(c), st) EXCEPT !.updated_at = u]

SweepRows ==
  {NewScan(c) : c \in SweepAges}
    \cup {RunningRow(c, st, u) : <<c, st, u>> \in
            {x \in SweepAges \X SweepAges \X SweepAges : x[1] >= x[2] /\ x[2] >= x[3]}}
    \cup {ScanNoLiveHosts(RunningRow(c, c, u), u) : <<c, u>> \in
            {x \in SweepAges \X SweepAges : x[1] >= x[2]}}
    \cup {ScanFailed(RunningRow(c, c, u), u, "discovery error") : <<c, u>> \in
            {x \in SweepAges \X SweepAges : x[1] >= x[2]}}

\* where the thread of a scan with that row is
SweepOrch(row) ==
  [NewOrch("api", 1) EXCEPT !.pc = IF row.status = PENDING THEN "idle"
                                  ELSE IF row.status = RUNNING THEN "discover"
                                  ELSE IF row.status = COMPLETED THEN "returned" ELSE "handled",
                            !.exc = IF row.status = FAILED THEN "discovery error" ELSE "none"]

SweepInit ==
  /\ scans \in [1..MaxSweepScans -> SweepRows]
  /\ orch = [s \in 1..MaxSweepScans |-> SweepOrch(scans[s])]
  /\ tasks = [s \in 1..MaxSweepScans |-> <<>>]
  /\ doneQ = [s \in 1..MaxSweepScans |-> <<>>]
  /\ hosts = {} /\ ports = {} /\ artifacts = {} /\ fs = <<>>
  /\ wd = WdIdle
  /\ scan_parallelism = Config(1)
  /\ schedules = <<>> /\ jobs = <<>> /\ clock = 0 /\ fire = FireIdle

SweepSpec == SweepInit /\ [][WatchdogBegin \/ WatchdogKill \/ WatchdogCommit]_vars

\* ------------------------------------------------ the cleanup, signal by signal
\* A third specification for the watchdog: kill_nmap_processes at the
\* grain of the signals it sends, on a Store with two running scans whose
\* ids are 1 and 12.  An external process is named 10 * scan + task (task 0
\* is the discovery run).  What a matched process does is an input: it is
\* already gone when it is looked up ("gone"), it exits within the 5 s wait
\* ("exits"), it outlives the wait and is killed ("hangs"), or it outlives
\* the wait and is gone when kill is called ("late").

\* a cleanup that sends kill right after terminate, without the wait
RECURSIVE kill_nmap_processes_NoWait(_, _, _, _)
kill_nmap_processes_NoWait(processes, outcome, events, killed) ==
  IF processes = <<>> THEN [events |-> events, killed |-> killed]
  ELSE LET p == Head(processes)
           e == IF outcome[p] = "gone" THEN <<>> ELSE <<"terminate", "kill">>
       IN kill_nmap_processes_NoWait(Tail(processes), outcome, events @@ (p :> e),
                                     IF outcome[p] = "gone" THEN killed ELSE killed + 1)

\* the loop of kill_nmap_processes over the processes found: what is done to
\* each of them, in order, and the count returned; NoSuchProcess leaves the
\* loop body before killed += 1
RECURSIVE kill_nmap_processes(_, _, _, _)
kill_nmap_processes(processes, outcome, events, killed) ==
  IF processes = <<>> THEN [events |-> events, killed |-> killed]
  ELSE LET p == Head(processes)
           e == IF outcome[p] = "gone" THEN <<>>
                ELSE IF outcome[p] = "exits" THEN <<"terminate", "wait">>
                ELSE IF outcome[p] = "hangs" THEN <<"terminate", "wait", "TimeoutExpired", "kill">>
                ELSE <<"terminate", "wait", "TimeoutExpired">>
       IN kill_nmap_processes(Tail(processes), outcome, events @@ (p :> e),
                              IF outcome[p] \in {"exits", "hangs"} THEN killed + 1 ELSE killed)

\* kill_nmap_processes for the next stuck scan: the processes whose command
\* line matches are looked up, each is handled; a process that was sent a
\* signal ends, and its caller will see the tool fail
KillNmapProcesses ==
  /\ wd.pc = "kill"
  /\ LET id == wd.stuck[wd.k].id
         matched == {s \in DOMAIN orch : CmdlineMatches(id, s)}
         found == {10 * s : s \in {x \in matched : orch[x].pc = "discover"}}
                    \cup UNION {{10 * s + i : i \in {j \in DOMAIN tasks[s] : tasks[s][j].st = "nmap"}} : s \in matched}
     IN \E outcome \in [found -> {"gone", "exits", "hangs", "late"}] :
          LET r == kill_nmap_processes(SortedSeq(found), outcome, <<>>, 0)
              Signalled(p) == p \in found /\ r.events[p] # <<>>
          IN /\ orch' = [s \in DOMAIN orch |->
                          IF Signalled(10 * s) THEN [orch[s] EXCEPT !.pc = "discover_killed"] ELSE orch[s]]
             /\ tasks' = [s \in DOMAIN tasks |->
                           [i \in DOMAIN tasks[s] |->
                              IF Signalled(10 * s + i) THEN [tasks[s][i] EXCEPT !.st = "killed"] ELSE tasks[s][i]]]
             /\ wd' = [pc |-> IF wd.k = Len(wd.stuck) THEN "commit" ELSE "kill", now |-> wd.now,
                       stuck |-> wd.stuck, k |-> wd.k + 1, scan_id |-> id,
                       events |-> r.events, killed |-> r.killed]
  /\ UNCHANGED <<scans, hosts, ports, artifacts, fs, doneQ, scan_parallelism, schedules, jobs, clock, fire>>

\* two running scans, each in discovery or with two per-host runs under
\* way, each last written just now or 31 minutes ago
KillInit ==
  /\ \E u \in [{1, 12} -> {0, 31}] : \E pc \in [{1, 12} -> {"discover", "collect"}] :
       /\ scans = [s \in {1, 12} |->
            IF pc[s] = "discover" THEN RunningRow(31, 31, u[s])
            ELSE ScanProgress(RunningRow(31, 31, u[s]), u[s], 20, "Starting detailed scans")]
       /\ orch = [s \in {1, 12} |->
            IF pc[s] = "discover" THEN [NewOrch("api", 1) EXCEPT !.pc = "discover"]
            ELSE [NewOrch("api", 1) EXCEPT !.pc = "collect", !.idx = 1, !.all_live_ips = <<1, 2>>,
                    !.all_discovery_xmls = <<DiscoveryPath(s)>>, !.max_workers = 2]]
       /\ tasks = [s \in {1, 12} |->
            IF pc[s] = "discover" THEN <<>>
            ELSE [i \in 1..2 |-> [ip |-> i, st |-> "nmap", ok |-> FALSE]]]
       /\ hosts = {HostScanning(NewHost(10 * s + i, s, i), utcnow) :
                     <<s, i>> \in {x \in {1, 12} \X (1..2) : pc[x[1]] = "collect"}}
       /\ fs = [q \in {DiscoveryPath(s) : s \in {x \in {1, 12} : pc[x] = "collect"}} |->
                 XmlFile([i \in 1..2 |-> [ip |-> i, ports |-> 1, os |-> FALSE, mac |-> FALSE]])]
  /\ doneQ = [s \in {1, 12} |-> <<>>]
  /\ ports = {} /\ artifacts = {}
  /\ wd = WdIdle
  /\ scan_parallelism = Config(2)
  /\ schedules = <<>> /\ jobs = <<>> /\ clock = 0 /\ fire = FireIdle

KillSpec == KillInit /\ [][WatchdogBegin \/ KillNmapProcesses \/ WatchdogCommit]_vars

\* ------------------------------------------------------- VM classification
\* A string is a sequence of characters.
\* x.lower() in s.lower()
Contains(x, s) ==
  LET upper == <<"A", "B", "C", "D", "E", "F", "G", "H", "I", "J", "K", "L", "M", "N", "O", "P", "Q", "R", "S", "T", "U", "V", "W", "X", "Y", "Z">>
      lower == <<"a", "b", "c", "d", "e", "f", "g", "h", "i", "j", "k", "l", "m", "n", "o", "p", "q", "r", "s", "t", "u", "v", "w", "x", "y", "z">>
      Lower(w) == [k \in 1..Len(w) |->
                    IF \E n \in 1..26 : upper[n] = w[k] THEN lower[CHOOSE n \in 1..26 : upper[n] = w[k]]
                    ELSE w[k]]
  IN \E k \in 0..(Len(s) - Len(x)) : SubSeq(Lower(s), k + 1, k + Len(x)) = Lower(x)

\* a detection whose Docker address test overrides what came before it
detect_enhanced_vm_IpOverrides(host_data) ==
  IF host_data.is_vm THEN host_data
  ELSE IF SubSeq(host_data.ip, 1, 7) \in {<<"1", "7", "2", ".", "1", "7", ".">>,
                                          <<"1", "7", "2", ".", "1", "8", ".">>}
    THEN [host_data EXCEPT !.is_vm = TRUE, !.vm_type = "Docker"]
  ELSE host_data

\* detect_enhanced_vm on a host record that carries is_vm and vm_type as
\* parse_nmap_xml set them: the record is returned as it is when is_vm is
\* set; else the first indicator (in the order of the dictionary) found in
\* the OS string, then the two address prefix tests, each of which sets
\* is_vm and keeps a vm_type that is already there
detect_enhanced_vm(host_data) ==
  LET vm_indicators == <<<<<<"d", "o", "c", "k", "e", "r">>, "Docker">>,
                        <<<<"l", "x", "c">>, "LXC">>,
                        <<<<"c", "o", "n", "t", "a", "i", "n", "e", "r">>, "Container">>,
                        <<<<"k", "v", "m">>, "KVM">>,
                        <<<<"h", "y", "p", "e", "r", "v">>, "Hyper-V">>,
                        <<<<"v", "m", "w", "a", "r", "e">>, "VMware">>,
                        <<<<"v", "i", "r", "t", "u", "a", "l", "b", "o", "x">>, "VirtualBox">>,
                        <<<<"x", "e", "n">>, "Xen">>>>
      hit == {k \in 1..Len(vm_indicators) : Contains(vm_indicators[k][1], host_data.os)}
      by_os == IF hit = {} THEN host_data
               ELSE [host_data EXCEPT !.is_vm = TRUE, !.vm_type = vm_indicators[Min(hit)][2]]
      StartsWith(s, prefix) == Len(s) >= Len(prefix) /\ SubSeq(s, 1, Len(prefix)) = prefix
      docker == StartsWith(host_data.ip, <<"1", "7", "2", ".", "1", "7", ".">>) \/ StartsWith(host_data.ip, <<"1", "7", "2", ".", "1", "8", ".">>)
      by_docker == IF docker THEN [by_os EXCEPT !.is_vm = TRUE,
                                                !.vm_type = IF by_os.vm_type = "" THEN "Docker" ELSE @]
                   ELSE by_os
  IN IF host_data.is_vm THEN host_data
     ELSE IF StartsWith(host_data.ip, <<"1", "0", ".", "0", ".", "3", ".">>)
       THEN [by_docker EXCEPT !.is_vm = TRUE, !.vm_type = IF by_docker.vm_type = "" THEN "LXC" ELSE @]
     ELSE by_docker

\* the worker's reading of a per-host output: parse_nmap_xml takes address,
\* vendor and OS of the host element and looks for the first VM vendor in
\* the vendor string, detect_enhanced_vm follows, the row is written
ClassifyHost(s, i) ==
  /\ s \in DOMAIN scans
  /\ i \in DOMAIN tasks[s]
  /\ tasks[s][i].st = "nmap"
  /\ HostPath(s, tasks[s][i].ip) \in DOMAIN fs
  /\ LET elem == fs[HostPath(s, tasks[s][i].ip)].hosts[1]
         vm_vendors == <<<<"Q", "E", "M", "U">>, <<"V", "M", "w", "a", "r", "e">>, <<"V", "i", "r", "t", "u", "a", "l", "B", "o", "x">>, <<"X", "e", "n">>, <<"M", "i", "c", "r", "o", "s", "o", "f", "t">>, <<"P", "a", "r", "a", "l", "l", "e", "l", "s">>>>
         names == <<"QEMU", "VMware", "VirtualBox", "Xen", "Microsoft", "Parallels">>
         found == {k \in 1..Len(vm_vendors) : Contains(vm_vendors[k], elem.vendor)}
         parsed == [ip |-> elem.ip, os |-> elem.os, vendor |-> elem.vendor,
                    is_vm |-> found # {}, vm_type |-> IF found = {} THEN "" ELSE names[Min(found)]]
         host_data == detect_enhanced_vm(parsed)
     IN hosts' = {[h EXCEPT !.is_vm = host_data.is_vm, !.vm_type = host_data.vm_type,
                            !.scan_status = COMPLETED] : h \in hosts}
  /\ Finish(s, i, TRUE)
  /\ UNCHANGED <<scans, ports, artifacts, fs, orch, wd, scan_parallelism, schedules, jobs, clock, fire>>

\* one scan with one host in enumeration whose output file is on disk: the
\* host element has any of these vendor and OS strings and addresses (the
\* task's address 1 stands for the address written in the file)
VmInit ==
  /\ \E vendor \in {<<>>,
                      <<"Q", "E", "M", "U">>,
                      <<"q", "e", "m", "u">>,
                      <<"V", "M", "w", "a", "r", "e", ",", " ", "I", "n", "c", ".">>,
                      <<"X", "e", "n", "s", "o", "u", "r", "c", "e">>,
                      <<"M", "i", "c", "r", "o", "s", "o", "f", "t", " ", "X", "e", "n">>,
                      <<"P", "A", "R", "A", "L", "L", "E", "L", "S">>,
                      <<"O", "r", "a", "c", "l", "e", " ", "V", "i", "r", "t", "u", "a", "l", "B", "o", "x">>,
                      <<"I", "n", "t", "e", "l">>} :
     \E os \in {<<>>,
                  <<"L", "i", "n", "u", "x", " ", "5", ".", "x">>,
                  <<"L", "i", "n", "u", "x", " ", "(", "d", "o", "c", "k", "e", "r", ")">>,
                  <<"L", "X", "C", " ", "C", "o", "n", "t", "a", "i", "n", "e", "r">>,
                  <<"X", "e", "n", " ", "K", "V", "M">>,
                  <<"M", "i", "c", "r", "o", "s", "o", "f", "t", " ", "H", "y", "p", "e", "r", "-", "V">>,
                  <<"h", "y", "p", "e", "r", "v", " ", "V", "M", "W", "A", "R", "E">>,
                  <<"V", "i", "r", "t", "u", "a", "l", "B", "o", "x", " ", "X", "e", "n">>} :
     \E ip \in {<<"1", "7", "2", ".", "1", "7", ".", "0", ".", "5">>,
                  <<"1", "7", "2", ".", "1", "8", ".", "1", ".", "1">>,
                  <<"1", "7", "2", ".", "1", "9", ".", "0", ".", "1">>,
                  <<"1", "7", "2", ".", "1", "7", "0", ".", "0", ".", "1">>,
                  <<"1", "0", ".", "0", ".", "3", ".", "7">>,
                  <<"1", "0", ".", "0", ".", "3", "0", ".", "7">>,
                  <<"1", "9", "2", ".", "1", "6", "8", ".", "1", ".", "1">>} :
       /\ fs = (HostPath(1, 1) :> XmlFile(<<[ip |-> ip, vendor |-> vendor, os |-> os]>>))
       /\ hosts = {[id |-> 1, scan_id |-> 1, ip |-> ip, scan_status |-> SCANNING,
                    is_vm |-> FALSE, vm_type |-> ""]}
  /\ scans = (1 :> ScanProgress(ScanBegin(NewScan(0), 0), 0, 20, "Starting detailed scans"))
  /\ orch = (1 :> [NewOrch("api", 1) EXCEPT !.pc = "collect", !.idx = 1, !.all_live_ips = <<1>>,
                                            !.max_workers = 1])
  /\ tasks = (1 :> <<[ip |-> 1, st |-> "nmap", ok |-> FALSE]>>)
  /\ doneQ = (1 :> <<>>)
  /\ ports = {} /\ artifacts = {} /\ wd = WdIdle /\ scan_parallelism = Config(1)
  /\ schedules = <<>> /\ jobs = <<>> /\ clock = 0 /\ fire = FireIdle

VmSpec == VmInit /\ [][\E s \in ScanIds : \E i \in TaskIds : ClassifyHost(s, i)]_vars

\* --------------------------------------------------------------- scheduler
\* The recurring-scan scheduler: the schedule endpoints of the API, the job
\* table of the SchedulerService and the job runs.  The endpoints are
\* coroutines that never await, so the event loop runs them one at a time; a
\* job run is on an executor thread and interleaves with them.  Schedule
\* timestamps are instants of the scheduler's clock, which counts ticks.
\*
\* cron expressions: "*/1" and "*/2" fire every tick and every second tick;
\* BAD_CRON has five fields, which is all the request schema asks for, and
\* is rejected by croniter
BAD_CRON == "bad"
Crons == {"*/1", "*/2"}
CronExpressions == Crons \cup {BAD_CRON}
Period(cron) == IF cron = "*/1" THEN 1 ELSE 2

\* croniter(cron, t).get_next(): the first firing time strictly after t
CronNext(cron, t) == (t \div Period(cron) + 1) * Period(cron)

\* network_range strings, as sequences of characters
NetworkRanges == {<<"a">>, <<"a", ",", "b">>}

\* network_range.split(",")
RECURSIVE Split(_, _, _)
Split(str, cur, acc) ==
  IF str = <<>> THEN Append(acc, cur)
  ELSE IF Head(str) = "," THEN Split(Tail(str), <<>>, Append(acc, cur))
  ELSE Split(Tail(str), Append(cur, Head(str)), acc)

\* ScanSchedule(name, cron_expression, network_range, enabled)
NewSchedule(cron, network_range, enabled) ==
  [cron_expression |-> cron, network_range |-> network_range, enabled |-> enabled,
   last_run_at |-> None, next_run_at |-> None]

\* the id the Store gives a new row: the highest rowid in the table plus one
NextId(table) == IF DOMAIN table = {} THEN 1 ELSE Max(DOMAIN table) + 1

\* remove_job that leaves the job in place
RemoveJob_JobKept(J, id) == J

\* scheduler.remove_job(job_id), a missing job being ignored
RemoveJob(J, id) == [j \in DOMAIN J \ {id} |-> J[j]]

\* _add_job: the old job is removed first; croniter raises on a bad expression
AddJobRaises(row) == row.cron_expression \notin Crons
AddJob(J, id, row) ==
  IF AddJobRaises(row) THEN RemoveJob(J, id)
  ELSE (id :> [cron |-> row.cron_expression, args |-> id]) @@ RemoveJob(J, id)

\* _update_next_run, which logs what croniter raises
UpdateNextRun(row, t) ==
  IF row.cron_expression \in Crons
  THEN [row EXCEPT !.next_run_at = CronNext(row.cron_expression, t)] ELSE row

\* add_schedule(schedule_id): Store and job table after the call; an
\* exception of _add_job is logged and the session rolled back
AddSchedule(S, J, id, t) ==
  IF id \notin DOMAIN S THEN [schedules |-> S, jobs |-> J]
  ELSE IF ~S[id].enabled THEN [schedules |-> S, jobs |-> J]
  ELSE IF AddJobRaises(S[id]) THEN [schedules |-> S, jobs |-> AddJob(J, id, S[id])]
  ELSE [schedules |-> [S EXCEPT ![id] = UpdateNextRun(@, t)], jobs |-> AddJob(J, id, S[id])]

\* whether add_schedule lets an exception reach its caller: its except clause
\* catches every Exception of _add_job and _update_next_run, logs it and
\* rolls back, and has no raise
AddScheduleRaises(S, id) == FALSE

\* remove_schedule(schedule_id)
RemoveSchedule(J, id) == RemoveJob(J, id)

\* update_schedule(schedule_id): "Remove old job and add new one"
UpdateSchedule(S, J, id, t) == AddSchedule(S, RemoveSchedule(J, id), id, t)

\* load_schedules on a fresh job table: every enabled schedule is added, one
\* that fails is logged and skipped
LoadSchedules(S, t) ==
  LET ok == {id \in DOMAIN S : S[id].enabled /\ ~AddJobRaises(S[id])}
  IN [schedules |-> [id \in DOMAIN S |-> IF id \in ok THEN UpdateNextRun(S[id], t) ELSE S[id]],
      jobs |-> [id \in ok |-> [cron |-> S[id].cron_expression, args |-> id]]]

\* Scan(network_range, status=PENDING, progress_percent=0, schedule_id)
ScheduledScan(t, id, network_range) ==
  [NewScan(t) EXCEPT !.progress_message = "Scheduled scan"]
    @@ [schedule_id |-> id, network_range |-> network_range]

\* _execute_scheduled_scan without the check of enabled
ExecInsert_EnabledIgnored(S, N, id, t) ==
  IF id \notin DOMAIN S THEN N
  ELSE N @@ (NextId(N) :> ScheduledScan(t, id, S[id].network_range))

\* _execute_scheduled_scan up to the first commit: nothing for a missing or
\* disabled schedule, else the Scan row is inserted
ExecInsert(S, N, id, t) ==
  IF id \notin DOMAIN S \/ ~S[id].enabled THEN N
  ELSE N @@ (NextId(N) :> ScheduledScan(t, id, S[id].network_range))

\* "Update schedule last run time": the UPDATE finds no row if the schedule
\* was deleted meanwhile, and the run ends in the except clause
ExecLastRun(S, id, t) ==
  IF id \in DOMAIN S THEN [S EXCEPT ![id].last_run_at = t] ELSE S

\* "Update next run time", from the row as it is now
ExecNextRun(S, id, t) ==
  IF id \in DOMAIN S THEN [S EXCEPT ![id] = UpdateNextRun(@, t)] ELSE S

\* the thread started for the new scan with the comma-split networks
StartThread(scan_id, network_range) ==
  /\ orch' = orch @@ (scan_id :> NewOrch("schedule", Len(Split(network_range, <<>>, <<>>))))
  /\ tasks' = tasks @@ (scan_id :> <<>>)
  /\ doneQ' = doneQ @@ (scan_id :> <<>>)

\* POST /api/schedules
ApiCreateSchedule(cron, network_range, enabled) ==
  LET id == NextId(schedules)
      S == schedules @@ (id :> NewSchedule(cron, network_range, enabled))
      r == AddSchedule(S, jobs, id, clock)
  IN /\ id <= MaxSchedules
     /\ Cardinality(DOMAIN schedules) + Cardinality(DOMAIN scans) < MaxSchedRows
     /\ schedules' = r.schedules
     /\ jobs' = r.jobs
     /\ UNCHANGED <<scans, hosts, ports, artifacts, fs, orch, tasks, doneQ, wd, scan_parallelism, clock, fire>>

\* PUT /api/schedules/{id}: the fields given are written, then the job is
\* replaced if the schedule is enabled and removed if it is not
ApiUpdateSchedule(id, cron, enabled) ==
  /\ id \in DOMAIN schedules
  /\ LET S == [schedules EXCEPT ![id].cron_expression = cron, ![id].enabled = enabled]
         r == IF enabled THEN UpdateSchedule(S, jobs, id, clock)
              ELSE [schedules |-> S, jobs |-> RemoveSchedule(jobs, id)]
     IN schedules' = r.schedules /\ jobs' = r.jobs
  /\ UNCHANGED <<scans, hosts, ports, artifacts, fs, orch, tasks, doneQ, wd, scan_parallelism, clock, fire>>

\* a deletion of the schedule that leaves the link of its scans as it is
ApiDeleteSchedule_LinkKept(id) ==
  /\ id \in DOMAIN schedules
  /\ jobs' = RemoveSchedule(jobs, id)
  /\ schedules' = [j \in DOMAIN schedules \ {id} |-> schedules[j]]
  /\ UNCHANGED <<scans, hosts, ports, artifacts, fs, orch, tasks, doneQ, wd, scan_parallelism, clock, fire>>

\* DELETE /api/schedules/{id}: the job is removed, the row deleted and the
\* link of its scans set to NULL
ApiDeleteSchedule(id) ==
  /\ id \in DOMAIN schedules
  /\ jobs' = RemoveSchedule(jobs, id)
  /\ schedules' = [j \in DOMAIN schedules \ {id} |-> schedules[j]]
  /\ scans' = [s \in DOMAIN scans |->
       IF scans[s].schedule_id = id THEN [scans[s] EXCEPT !.schedule_id = None] ELSE scans[s]]
  /\ UNCHANGED <<hosts, ports, artifacts, fs, orch, tasks, doneQ, wd, scan_parallelism, clock, fire>>

\* POST /api/schedules/{id}/trigger: trigger_schedule runs
\* _execute_scheduled_scan in the request
ApiTriggerSchedule(id) ==
  /\ id \in DOMAIN schedules
  /\ Cardinality(DOMAIN scans) < MaxSchedScans
  /\ Cardinality(DOMAIN schedules) + Cardinality(DOMAIN scans) < MaxSchedRows
  /\ scans' = ExecInsert(schedules, scans, id, utcnow)
  /\ IF schedules[id].enabled
     THEN /\ schedules' = ExecNextRun(ExecLastRun(schedules, id, clock), id, clock)
          /\ StartThread(NextId(scans), schedules[id].network_range)
     ELSE UNCHANGED <<schedules, orch, tasks, doneQ>>
  /\ UNCHANGED <<hosts, ports, artifacts, fs, wd, scan_parallelism, jobs, clock, fire>>

\* the service is restarted: the job table is built anew by load_schedules
StartScheduler ==
  /\ fire = FireIdle
  /\ LET r == LoadSchedules(schedules, clock)
     IN schedules' = r.schedules /\ jobs' = r.jobs
  /\ UNCHANGED <<scans, hosts, ports, artifacts, fs, orch, tasks, doneQ, wd, scan_parallelism, clock, fire>>

\* the job of a schedule is due and handed to the executor; max_instances = 1
FireDispatch(id) ==
  /\ fire = FireIdle
  /\ id \in DOMAIN jobs
  /\ fire' = [pc |-> "dispatched", id |-> jobs[id].args, scan |-> None]
  /\ UNCHANGED <<scans, hosts, ports, artifacts, fs, orch, tasks, doneQ, wd, scan_parallelism, schedules, jobs, clock>>

\* _execute_scheduled_scan on the executor thread, to the first commit
FireBegin ==
  /\ fire.pc = "dispatched"
  /\ Cardinality(DOMAIN scans) < MaxSchedScans
  /\ Cardinality(DOMAIN schedules) + Cardinality(DOMAIN scans) < MaxSchedRows
  /\ scans' = ExecInsert(schedules, scans, fire.id, utcnow)
  /\ fire' = IF scans' = scans THEN FireIdle
             ELSE [fire EXCEPT !.pc = "last_run", !.scan = NextId(scans)]
  /\ UNCHANGED <<hosts, ports, artifacts, fs, orch, tasks, doneQ, wd, scan_parallelism, schedules, jobs, clock>>

\* last_run_at is committed and the thread started; if the commit fails the
\* run ends here, the Scan row staying as inserted
FireLastRun ==
  /\ fire.pc = "last_run"
  /\ schedules' = ExecLastRun(schedules, fire.id, clock)
  /\ IF fire.id \in DOMAIN schedules
     THEN /\ StartThread(fire.scan, scans[fire.scan].network_range)
          /\ fire' = [fire EXCEPT !.pc = "next_run"]
     ELSE /\ UNCHANGED <<orch, tasks, doneQ>>
          /\ fire' = FireIdle
  /\ UNCHANGED <<scans, hosts, ports, artifacts, fs, wd, scan_parallelism, jobs, clock>>

\* next_run_at is recomputed and committed
FireNextRun ==
  /\ fire.pc = "next_run"
  /\ schedules' = ExecNextRun(schedules, fire.id, clock)
  /\ fire' = FireIdle
  /\ UNCHANGED <<scans, hosts, ports, artifacts, fs, orch, tasks, doneQ, wd, scan_parallelism, jobs, clock>>

\* a tick of the scheduler's clock
SchedTick ==
  /\ clock < MaxClock
  /\ clock' = clock + 1
  /\ scans' = [s \in DOMAIN scans |->
       [scans[s] EXCEPT !.created_at = Older(@), !.updated_at = Older(@)]]
  /\ UNCHANGED <<hosts, ports, artifacts, fs, orch, tasks, doneQ, wd, scan_parallelism, schedules, jobs, fire>>

ScheduleIds == 1..MaxSchedules

SchedNext ==
  \/ \E cron \in CronExpressions : \E nr \in NetworkRanges : \E enabled \in BOOLEAN :
       ApiCreateSchedule(cron, nr, enabled)
  \/ \E id \in ScheduleIds : \E cron \in CronExpressions : \E enabled \in BOOLEAN :
       ApiUpdateSchedule(id, cron, enabled)
  \/ \E id \in ScheduleIds : ApiDeleteSchedule(id)
  \/ \E id \in ScheduleIds : ApiTriggerSchedule(id)
  \/ StartScheduler
  \/ \E id \in ScheduleIds : FireDispatch(id)
  \/ FireBegin
  \/ FireLastRun
  \/ FireNextRun
  \/ SchedTick

SchedInit ==
  /\ scans = <<>> /\ orch = <<>> /\ tasks = <<>> /\ doneQ = <<>>
  /\ hosts = {} /\ ports = {} /\ artifacts = {} /\ fs = <<>>
  /\ wd = WdIdle
  /\ scan_parallelism = Config(1)
  /\ schedules = <<>> /\ jobs = <<>> /\ clock = 0 /\ fire = FireIdle

SchedSpec == SchedInit /\ [][SchedNext]_vars

\* ------------------------------------------------------- job table calls
\* add_schedule, remove_schedule and update_schedule called on any Store and
\* any job table: the API calls them after its own commit, so a schedule may
\* be enabled without a job, disabled with one, or hold another expression
\* than its job.
JobInit ==
  /\ scans = <<>> /\ orch = <<>> /\ tasks = <<>> /\ doneQ = <<>>
  /\ hosts = {} /\ ports = {} /\ artifacts = {} /\ fs = <<>>
  /\ wd = WdIdle
  /\ scan_parallelism = Config(1)
  /\ \E D \in SUBSET ScheduleIds :
       schedules \in [D -> {NewSchedule(c, nr, e) :
                              c \in CronExpressions, nr \in NetworkRanges, e \in BOOLEAN}]
  /\ \E D \in SUBSET ScheduleIds : \E f \in [D -> Crons] :
       jobs = [id \in D |-> [cron |-> f[id], args |-> id]]
  /\ clock \in 0..MaxClock
  /\ fire = FireIdle

add_schedule(id) ==
  /\ LET r == AddSchedule(schedules, jobs, id, clock)
     IN schedules' = r.schedules /\ jobs' = r.jobs
  /\ UNCHANGED <<scans, hosts, ports, artifacts, fs, orch, tasks, doneQ, wd, scan_parallelism, clock, fire>>

remove_schedule(id) ==
  /\ jobs' = RemoveSchedule(jobs, id)
  /\ UNCHANGED <<scans, hosts, ports, artifacts, fs, orch, tasks, doneQ, wd, scan_parallelism, schedules, clock, fire>>

update_schedule(id) ==
  /\ LET r == UpdateSchedule(schedules, jobs, id, clock)
     IN schedules' = r.schedules /\ jobs' = r.jobs
  /\ UNCHANGED <<scans, hosts, ports, artifacts, fs, orch, tasks, doneQ, wd, scan_parallelism, clock, fire>>

JobNext ==
  \/ \E id \in ScheduleIds : add_schedule(id)
  \/ \E id \in ScheduleIds : remove_schedule(id)
  \/ \E id \in ScheduleIds : update_schedule(id)

JobSpec == JobInit /\ [][JobNext]_vars

\* ------------------------------------------------- deletion and retention
\* Scans are deleted through the API and by the daily retention run.  Both
\* are checked on Stores drawn as executions leave them: per scan a pending
\* row, a failed discovery, or a completed scan with its host rows, ports,
\* artifacts and files; the threads are gone.  created_at is an age in
\* minutes, a day being 1440 of them.

\* a deletion of the scans of ids S that removes their hosts and artifacts
\* and leaves the ports of those hosts
DeleteScans_PortsKept(S) ==
  [scans |-> [x \in DOMAIN scans \ S |-> scans[x]],
   hosts |-> {h \in hosts : h.scan_id \notin S},
   ports |-> ports,
   artifacts |-> {a \in artifacts : a.scan_id \notin S}]

\* db.delete(scan) for the scans of ids S and commit: the relationships
\* hosts and artifacts cascade (all, delete-orphan), and hosts.ports in turn
DeleteScans(S) ==
  LET gone == {h.id : h \in {x \in hosts : x.scan_id \in S}}
  IN [scans |-> [x \in DOMAIN scans \ S |-> scans[x]],
      hosts |-> {h \in hosts : h.scan_id \notin S},
      ports |-> {q \in ports : q.host_id \notin gone},
      artifacts |-> {a \in artifacts : a.scan_id \notin S}]

\* DELETE /api/scans/{scan_id}: the file of each artifact is removed, then
\* the row is deleted
ApiDeleteScan(s) ==
  /\ s \in DOMAIN scans
  /\ fs' = [q \in DOMAIN fs \ {FilePath(a) : a \in {x \in artifacts : x.scan_id = s}} |-> fs[q]]
  /\ LET r == DeleteScans({s})
     IN scans' = r.scans /\ hosts' = r.hosts /\ ports' = r.ports /\ artifacts' = r.artifacts
  /\ UNCHANGED <<orch, tasks, doneQ, wd, scan_parallelism, schedules, jobs, clock, fire>>

\* a retention run whose cutoff takes in the scans created at the cutoff
CleanupOldData_AtCutoff(setting, fails) ==
  LET retention_days == IF setting = None THEN 90 ELSE setting
      old_scans == {s \in DOMAIN scans : scans[s].created_at >= retention_days * 1440}
      r == IF fails THEN [scans |-> scans, hosts |-> hosts, ports |-> ports, artifacts |-> artifacts]
           ELSE DeleteScans(old_scans)
  IN /\ old_scans # {}
     /\ fs' = [q \in DOMAIN fs \ {FilePath(a) : a \in {x \in artifacts : x.scan_id \in old_scans}} |-> fs[q]]
     /\ scans' = r.scans /\ hosts' = r.hosts /\ ports' = r.ports /\ artifacts' = r.artifacts
     /\ UNCHANGED <<orch, tasks, doneQ, wd, scan_parallelism, schedules, jobs, clock, fire>>

\* _cleanup_old_data with the setting data_retention_days (None: no row, 90
\* days): the scans created before the cutoff are found, the files of their
\* artifacts removed, then the rows deleted in one transaction, which is
\* rolled back if anything fails
CleanupOldData(setting, fails) ==
  LET retention_days == IF setting = None THEN 90 ELSE setting
      old_scans == {s \in DOMAIN scans : scans[s].created_at > retention_days * 1440}
      r == IF fails THEN [scans |-> scans, hosts |-> hosts, ports |-> ports, artifacts |-> artifacts]
           ELSE DeleteScans(old_scans)
  IN /\ old_scans # {}
     /\ fs' = [q \in DOMAIN fs \ {FilePath(a) : a \in {x \in artifacts : x.scan_id \in old_scans}} |-> fs[q]]
     /\ scans' = r.scans /\ hosts' = r.hosts /\ ports' = r.ports /\ artifacts' = r.artifacts
     /\ UNCHANGED <<orch, tasks, doneQ, wd, scan_parallelism, schedules, jobs, clock, fire>>

\* what the execution of scan s has left in the Store st and the output
\* directory: nothing while pending; the truncated discovery output of a
\* failed discovery; of a completed scan the discovery output and, if a host
\* was live, its per-host output, the rows of _save_hosts_to_db, the reports
\* and the artifact rows
AddHistory(st, s, kind, hosts_data, graph) ==
  IF kind = PENDING THEN st
  ELSE IF kind = FAILED THEN [st EXCEPT !.fs = (DiscoveryPath(s) :> Malformed) @@ @]
  ELSE IF hosts_data = <<>> THEN [st EXCEPT !.fs = (DiscoveryPath(s) :> XmlFile(<<>>)) @@ @]
  ELSE LET r == SaveHostsToDb(s, hosts_data, st.hosts, st.ports)
       IN [hosts |-> r.hosts, ports |-> r.ports,
           artifacts |-> st.artifacts \cup ReportArtifacts(s, graph, <<DiscoveryPath(s)>>),
           fs |-> ReportFiles(s, graph)
                    @@ [q \in {HostPath(s, hosts_data[k].ip) : k \in 1..Len(hosts_data)} |-> XmlFile(hosts_data)]
                    @@ (DiscoveryPath(s) :> XmlFile(hosts_data)) @@ st.fs]

StoreInit ==
  /\ orch = <<>> /\ tasks = <<>> /\ doneQ = <<>>
  /\ wd = WdIdle
  /\ scan_parallelism = Config(1)
  /\ clock = 0 /\ fire = FireIdle
  /\ \E r \in {LoadSchedules(<<NewSchedule("*/1", <<"a">>, TRUE)>>, 0)} :
       /\ schedules = r.schedules /\ jobs = r.jobs
       /\ \E kind \in [1..MaxStoreScans -> {PENDING, FAILED, COMPLETED}],
             age \in [1..MaxStoreScans -> {0, 1440, 1441, 90 * 1440, 90 * 1440 + 1}],
             hosts_data \in [1..MaxStoreScans ->
                              {<<>>} \cup {<<d>> : d \in {x \in DiscoveryRecords : x.ports > 0}}],
             graph \in [1..MaxStoreScans -> BOOLEAN],
             schedule_id \in [1..MaxStoreScans -> {None} \cup DOMAIN r.schedules] :
            LET st == AddHistory(AddHistory([hosts |-> {}, ports |-> {}, artifacts |-> {}, fs |-> <<>>],
                                            1, kind[1], hosts_data[1], graph[1]),
                                 2, kind[2], hosts_data[2], graph[2])
                row(s) == IF kind[s] = PENDING THEN NewScan(age[s])
                          ELSE IF kind[s] = FAILED
                            THEN ScanFailed(RunningRow(age[s], age[s], age[s]), age[s], "discovery error")
                          ELSE IF hosts_data[s] = <<>>
                            THEN ScanNoLiveHosts(RunningRow(age[s], age[s], age[s]), age[s])
                          ELSE ScanCompleted(RunningRow(age[s], age[s], age[s]), age[s])
            IN /\ scans = [s \in 1..MaxStoreScans |->
                            row(s) @@ [schedule_id |-> schedule_id[s], network_range |-> <<"a">>]]
               /\ hosts = st.hosts /\ ports = st.ports
               /\ artifacts = st.artifacts /\ fs = st.fs

StoreSpec ==
  /\ StoreInit
  /\ [][\/ \E s \in 1..MaxStoreScans : ApiDeleteScan(s)
        \/ \E setting \in {None, 1} : \E fails \in BOOLEAN : CleanupOldData(setting, fails)
        \/ \E id \in ScheduleIds : ApiDeleteSchedule(id)]_vars

\* ---------------------------------------------------------- reconciliation
\* Reconciliation applied to the output files of any scan whose workers have
\* all returned: the discovery output, listed once per network, then the
\* output of each live host, in which the comprehensive scan may report up
\* to one port more than the survey.
ParseInit ==
  /\ wd = WdIdle /\ scan_parallelism = Config(1)
  /\ schedules = <<>> /\ jobs = <<>> /\ clock = 0 /\ fire = FireIdle
  /\ ports = {} /\ artifacts = {}
  /\ \E n \in 1..MaxNetworks : \E out \in DiscoveryOutputs :
     \E detail \in [IPs -> [ports : 0..(MaxPorts + 1), os : BOOLEAN]] :
       LET live == LiveIPs(out)
           file(ip) == XmlFile(<<[ip |-> ip, ports |-> detail[ip].ports,
                                  os |-> detail[ip].os, mac |-> FALSE]>>)
       IN /\ live # <<>>
          /\ fs = [q \in {DiscoveryPath(1)} \cup {HostPath(1, live[k]) : k \in 1..Len(live)} |->
                    IF q = DiscoveryPath(1) THEN XmlFile(out) ELSE file(q[2])]
          /\ hosts = {HostParsed(h, utcnow, file(h.ip)) : h \in AddHosts({}, 1, live)}
          /\ scans = (1 :> ScanProgress(RunningRow(0, 0, 0), utcnow, 50, "Parsing scan results"))
          /\ orch = (1 :> [NewOrch("api", n) EXCEPT
                            !.pc = "parse", !.idx = n, !.all_live_ips = live,
                            !.all_discovery_xmls = [k \in 1..n |-> DiscoveryPath(1)],
                            !.per_host_xmls = [k \in 1..Len(live) |-> HostPath(1, live[k])],
                            !.completed_hosts = Len(live), !.max_workers = 1])
          /\ tasks = (1 :> [k \in 1..Len(live) |-> [ip |-> live[k], st |-> "done", ok |-> TRUE]])
          /\ doneQ = (1 :> <<>>)

ParseSpec == ParseInit /\ [][\E s \in ScanIds : Reconcile(s) \/ SaveHosts(s)]_vars

\* ------------------------------------------------------------------ claims
Scanning(s) == {h \in ScanHosts(s) : h.scan_status = SCANNING}

\* C1: once a scan's status is terminal (completed, failed or cancelled) no
\* later write changes it, neither to a non-terminal status nor to another
\* terminal one, under any interleaving of executions and watchdog sweeps.
C1_TerminalStatusIsFinal ==
  [][\A s \in DOMAIN scans :
       scans[s].status \in Terminal => scans'[s].status = scans[s].status]_vars

\* C2: execute_scan on a scan whose status is not pending reports an error
\* and leaves the scan's status, started_at, progress and hosts unchanged.
C2_ExecuteNonPendingIsError ==
  [][\A s \in DOMAIN scans :
       (orch[s].pc = "idle" /\ orch'[s].pc # "idle" /\ scans[s].status # PENDING)
         => /\ orch'[s].pc = "raised"
            /\ scans'[s].status = scans[s].status
            /\ scans'[s].started_at = scans[s].started_at
            /\ scans'[s].progress_percent = scans[s].progress_percent
            /\ {h \in hosts' : h.scan_id = s} = ScanHosts(s)]_vars

\* C3: a scan that is completed, failed or cancelled at the moment the
\* watchdog's write is committed keeps its status, completed_at and
\* error_message.
C3_WatchdogSparesTerminal ==
  [][(wd.pc = "commit" /\ wd'.pc = "idle")
       => \A s \in DOMAIN scans :
            scans[s].status \in Terminal
              => /\ scans'[s].status = scans[s].status
                 /\ scans'[s].completed_at = scans[s].completed_at
                 /\ scans'[s].error_message = scans[s].error_message]_vars

\* C4: progress_percent of every scan stays within [0,100] and no write
\* of an execute_scan run lowers it.
C4_ProgressMonotonic ==
  [][\A s \in DOMAIN scans :
       /\ scans'[s].progress_percent \in 0..100
       /\ scans'[s].progress_percent >= scans[s].progress_percent]_vars

\* C5: every scan whose status is completed, failed or cancelled has
\* completed_at set, whichever writer made it terminal.
C5_TerminalHasCompletedAt ==
  \A s \in DOMAIN scans : scans[s].status \in Terminal => scans[s].completed_at # None

\* C6: a pending scan has no started_at, a scan that has left pending (also
\* one the watchdog flipped from pending to failed) has it set, and a set
\* started_at is not rewritten.
C6_StartedAtIffLeftPending ==
  [][\A s \in DOMAIN scans :
       /\ scans'[s].status = PENDING <=> scans'[s].started_at = None
       /\ scans[s].started_at # None
            => scans'[s].started_at \in {scans[s].started_at, Older(scans[s].started_at)}]_vars

\* C7: every Host row of a scan in a terminal status has scan_status
\* completed or failed, never pending or scanning.
C7_TerminalScanHostsSettled ==
  \A h \in hosts :
    scans[h.scan_id].status \in Terminal => h.scan_status \in {COMPLETED, FAILED}

\* C8: every Host row with scan_status completed has ports_discovered equal
\* to the number of Port rows of that host, in every state.
C8_PortsDiscoveredIsPortCount ==
  \A h \in hosts :
    h.scan_status = COMPLETED => h.ports_discovered = Cardinality(HostPorts(h.id))

\* C9: during per-host enumeration of a scan with pool width W at most W Host
\* rows of the scan have scan_status scanning.
C9_AtMostWScanning ==
  \A s \in DOMAIN scans :
    orch[s].pc = "collect" => Cardinality(Scanning(s)) <= orch[s].max_workers

\* C10: every execute_scan call eventually drives the scan to completed or
\* failed, where it stays, given fair scheduling of the thread, its workers
\* and the watchdog and per-host subprocesses that return, fail or time out:
\* no scan is left pending or running forever.
C10_ExecutionReachesTerminal ==
  <>[](\A s \in DOMAIN scans :
         orch[s].pc # "idle" => scans[s].status \in {COMPLETED, FAILED})

\* C10 witness: an execution whose discovery subprocess the watchdog had to
\* terminate has ended, and the scan is failed
C10_Witness ==
  \E s \in DOMAIN scans :
    /\ orch[s].pc = "handled" /\ orch[s].exc = "discovery error"
    /\ DiscoveryPath(s) \in DOMAIN fs /\ ~fs[DiscoveryPath(s)].ok
    /\ scans[s].status = FAILED

\* C11: whenever execute_scan raises to its caller because of an exception
\* in discovery, reconciliation, filtering, persistence or artifact generation
\* (a Store write failure included), the scan has already been committed as
\* failed with completed_at set, error_message equal to the exception text and
\* progress_message "Scan failed: " followed by it.
C11_RaisedAfterFailedCommitted ==
  [][\A s \in DOMAIN scans :
       (orch[s].pc \notin {"idle", "raised"} /\ orch'[s].pc = "raised")
         => /\ scans'[s].status = FAILED
            /\ scans'[s].completed_at # None
            /\ scans'[s].error_message = orch'[s].exc
            /\ scans'[s].progress_message = "Scan failed: " \o orch'[s].exc]_vars

\* the step in which the runner of task i of scan s raises
RunnerFails(s, i) ==
  /\ i \in DOMAIN tasks[s]
  /\ tasks[s][i].st \in {"nmap", "killed"}
  /\ tasks'[s][i].st = "done" /\ ~tasks'[s][i].ok

\* C12: a runner failure for one host (subprocess error, timeout, missing
\* output file) is isolated: the Host row of that address becomes failed with
\* scan_error_message set, the rows, futures and returned output files of the
\* other submitted hosts are untouched, and the scan row is not written: the
\* execution goes on collecting.
C12_RunnerFailureIsolated ==
  [][\A s \in DOMAIN scans : \A i \in TaskIds :
       RunnerFails(s, i)
         => /\ \E h \in hosts' :
                 /\ h.scan_id = s /\ h.ip = tasks[s][i].ip
                 /\ h.scan_status = FAILED /\ h.scan_error_message
            /\ {h \in hosts' : h.ip # tasks[s][i].ip} = {h \in hosts : h.ip # tasks[s][i].ip}
            /\ \A j \in DOMAIN tasks[s] \ {i} :
                 /\ tasks'[s][j] = tasks[s][j]
                 /\ (tasks[s][j].st = "done" /\ tasks[s][j].ok)
                      => /\ HostPath(s, tasks[s][j].ip) \in DOMAIN fs'
                         /\ fs'[HostPath(s, tasks[s][j].ip)] = fs[HostPath(s, tasks[s][j].ip)]
            /\ scans'[s] = scans[s]
            /\ orch'[s] = orch[s]]_vars

\* a Host row with nothing found: no open port, no OS, no MAC (is_vm is then
\* false too for an address outside the container ranges: VM detection goes by
\* MAC vendor and OS string)
EmptyHost(h) == h.ports_discovered = 0 /\ ~h.os /\ ~h.mac

\* C13: when discovery finds live hosts and the filter drops every reconciled
\* host, the scan ends completed with no Host row left; more generally no
\* completed scan keeps a Host row with ports_discovered = 0, no os, no mac
\* and is_vm false.
C13_NoEmptyHostInCompletedScan ==
  \A s \in DOMAIN scans :
    scans[s].status = COMPLETED
      => /\ (orch[s].pc = "returned" /\ orch[s].all_live_ips # <<>> /\ orch[s].hosts_data = <<>>)
              => ScanHosts(s) = {}
         /\ \A h \in ScanHosts(s) : ~EmptyHost(h)

\* C14: when discovery over all submitted networks returns no live IP,
\* execute_scan returns with the scan completed, progress_percent 100,
\* progress_message "No live hosts discovered", started_at and completed_at
\* set; no Host row and no Artifact row of the scan exists then or later, and
\* no per-host worker is started.
C14_NoLiveHostsCompletes ==
  [][\A s \in DOMAIN scans :
       (orch'[s].pc = "returned" /\ orch'[s].all_live_ips = <<>>)
         => /\ orch[s].pc # "returned"
                 => /\ scans'[s].status = COMPLETED
                    /\ scans'[s].progress_percent = 100
                    /\ scans'[s].progress_message = "No live hosts discovered"
                    /\ scans'[s].started_at # None
                    /\ scans'[s].completed_at # None
            /\ {h \in hosts' : h.scan_id = s} = {}
            /\ {a \in artifacts' : a.scan_id = s} = {}
            /\ tasks'[s] = <<>> /\ doneQ'[s] = <<>>]_vars

\* C14 witness: execute_scan has returned from a discovery over two networks
\* that found no live host
C14_Witness ==
  \E s \in DOMAIN scans :
    /\ orch[s].pc = "returned" /\ orch[s].networks = 2 /\ orch[s].idx = 2
    /\ orch[s].all_live_ips = <<>>
    /\ scans[s].progress_message = "No live hosts discovered"

\* the claim's condition on a scan row at sweep time: pending or running, and
\* started more than 6 h ago, or not updated for more than 30 min, or pending
\* and created more than 1 h ago
StuckAtSweep(row) ==
  /\ row.status \in {PENDING, RUNNING}
  /\ \/ row.started_at # None /\ row.started_at - utcnow > 6 * 60
     \/ row.updated_at - utcnow > 30
     \/ row.status = PENDING /\ row.created_at - utcnow > 60

TimeoutMessages ==
  {"Scan timeout: " \o r : r \in {"exceeded maximum runtime", "no progress", "stuck in pending"}}

Networks(network_range) ==
  Cardinality({k \in 1..Len(network_range) : network_range[k] = ","}) + 1

\* this step adds exactly one Scan row, pending with progress 0, bound to
\* schedule id and carrying its network_range, and changes no other row
OneScanCreated(id) ==
  /\ DOMAIN scans' = DOMAIN scans \cup {NextId(scans)}
  /\ \A s \in DOMAIN scans : scans'[s] = scans[s]
  /\ scans'[NextId(scans)].status = PENDING
  /\ scans'[NextId(scans)].progress_percent = 0
  /\ scans'[NextId(scans)].schedule_id = id
  /\ scans'[NextId(scans)].network_range = schedules[id].network_range

\* this step starts exactly one execution, of scan s over its networks
OneExecutionStarted(s) ==
  /\ DOMAIN orch' = DOMAIN orch \cup {s} /\ s \notin DOMAIN orch
  /\ orch'[s].pc = "idle"
  /\ orch'[s].networks = Networks(scans[s].network_range)

\* C16: each firing of an existing enabled schedule, by cron or by
\* trigger(id), creates exactly one new Scan row (pending, progress 0,
\* schedule_id and network_range of the schedule), sets the schedule's
\* last_run_at to now, recomputes its next_run_at as the next firing time of
\* its cron expression, and starts exactly one detached execution of that scan
\* over the comma-split networks.
C16_FiringCreatesOneScan ==
  [][/\ \A id \in ScheduleIds :
          (ApiTriggerSchedule(id) /\ schedules[id].enabled)
            => /\ OneScanCreated(id)
               /\ schedules'[id].last_run_at = clock
               /\ schedules'[id].next_run_at = CronNext(schedules[id].cron_expression, clock)
               /\ DOMAIN orch' = DOMAIN orch \cup {NextId(scans)}
               /\ orch'[NextId(scans)].networks = Networks(schedules[id].network_range)
     /\ (FireBegin /\ fire.id \in DOMAIN schedules /\ schedules[fire.id].enabled)
          => OneScanCreated(fire.id) /\ fire'.pc = "last_run"
     /\ FireLastRun
          => /\ fire.id \in DOMAIN schedules'
             /\ schedules'[fire.id].last_run_at = clock
             /\ OneExecutionStarted(fire.scan)
             /\ fire'.pc = "next_run"
     /\ FireNextRun
          => /\ fire.id \in DOMAIN schedules'
             /\ schedules'[fire.id].next_run_at = CronNext(schedules'[fire.id].cron_expression, clock)]_vars

\* C17: a disabled schedule is never executed: add_schedule and
\* load_schedules register no job for a schedule with enabled = false, and a
\* cron firing or a trigger that finds the schedule disabled or gone creates
\* no Scan row, starts no execution and leaves the schedules (last_run_at,
\* next_run_at) as they are.
C17_DisabledNeverExecuted ==
  [][/\ \A id \in DOMAIN schedules : ~schedules[id].enabled =>
          /\ AddSchedule(schedules, jobs, id, clock).jobs = jobs
          /\ AddSchedule(schedules, RemoveJob(jobs, id), id, clock).jobs = RemoveJob(jobs, id)
          /\ id \notin DOMAIN LoadSchedules(schedules, clock).jobs
     /\ \A id \in ScheduleIds :
          (ApiTriggerSchedule(id) /\ ~schedules[id].enabled)
            => UNCHANGED <<scans, orch, schedules>>
     /\ (FireBegin /\ (fire.id \notin DOMAIN schedules \/ ~schedules[fire.id].enabled))
          => UNCHANGED <<scans, orch, schedules>>]_vars

\* the job of a schedule has been handed to the executor and the schedule
\* was disabled before the run read it
C17_Witness ==
  /\ fire.pc = "dispatched"
  /\ fire.id \in DOMAIN schedules
  /\ ~schedules[fire.id].enabled
  /\ schedules[fire.id].cron_expression \in Crons
  /\ ENABLED FireBegin

\* the ids of the schedules that exist in the Store with enabled = true
EnabledIds == {id \in DOMAIN schedules : schedules[id].enabled}

\* C18: the job table mirrors the Store: whenever no call of the schedule API
\* is in progress, the ids that have a job schedule_{id} are exactly the ids
\* of the schedules stored with enabled = true.
C18_JobsMirrorStore == DOMAIN jobs = EnabledIds

\* C19: for any schedule id and any job table without a job for it,
\* add_schedule(id) followed by remove_schedule(id) leaves the job table as
\* it was before the add, and remove_schedule(id) alone leaves it as it is.
C19_AddThenRemoveIsNoOp ==
  \A id \in ScheduleIds :
    id \notin DOMAIN jobs
      => /\ RemoveSchedule(AddSchedule(schedules, jobs, id, clock).jobs, id) = jobs
         /\ RemoveSchedule(jobs, id) = jobs

\* add_schedule registers a job for a schedule that has none, in a table
\* holding another schedule's job, and remove_schedule applies to that table
C19_Witness ==
  \E id \in ScheduleIds :
    /\ id \notin DOMAIN jobs
    /\ jobs # <<>>
    /\ id \in DOMAIN AddSchedule(schedules, jobs, id, clock).jobs
    /\ ENABLED remove_schedule(id)

\* C20: update_schedule(id) leaves the job table and the Store (next_run_at)
\* that remove_schedule(id) followed by add_schedule(id) leaves, from any job
\* table and Store: the job of id carries the schedule's current expression
\* if the schedule is enabled, and there is no job of id if the schedule is
\* disabled or missing.
C20_UpdateIsRemoveThenAdd ==
  \A id \in ScheduleIds :
    LET u == UpdateSchedule(schedules, jobs, id, clock)
        ra == AddSchedule(schedules, RemoveSchedule(jobs, id), id, clock)
    IN /\ u.jobs = ra.jobs
       /\ u.schedules = ra.schedules
       /\ IF id \in DOMAIN schedules /\ schedules[id].enabled
          THEN /\ id \in DOMAIN u.jobs
               /\ u.jobs[id].cron = schedules[id].cron_expression
          ELSE id \notin DOMAIN u.jobs

\* C21: add_schedule(id) for an enabled schedule whose cron expression is
\* invalid raises an error to its caller and registers no job for it.
C21_InvalidCronRaises ==
  \A id \in DOMAIN schedules :
    (schedules[id].enabled /\ AddJobRaises(schedules[id]))
      => /\ AddScheduleRaises(schedules, id)
         /\ id \notin DOMAIN AddSchedule(schedules, jobs, id, clock).jobs

\* C22: after each add (create or update through the API), load (start of
\* the service) or firing (cron run or trigger) the next_run_at stored for
\* an enabled schedule is the first firing time of its cron expression
\* strictly after the time of the operation; it is later than last_run_at,
\* and it is the instant at which the schedule's job next fires.
C22_NextRunIsNextFiring ==
  [][\A id \in ScheduleIds :
       LET touched ==
             \/ \E c \in CronExpressions, nr \in NetworkRanges :
                  ApiCreateSchedule(c, nr, TRUE) /\ id = NextId(schedules)
             \/ \E c \in CronExpressions : ApiUpdateSchedule(id, c, TRUE)
             \/ StartScheduler /\ id \in DOMAIN schedules
             \/ FireNextRun /\ fire.id = id
             \/ ApiTriggerSchedule(id)
       IN (touched /\ id \in DOMAIN schedules' /\ schedules'[id].enabled)
            => /\ schedules'[id].next_run_at = CronNext(schedules'[id].cron_expression, clock)
               /\ schedules'[id].next_run_at > clock
               /\ schedules'[id].next_run_at > schedules'[id].last_run_at
               /\ id \in DOMAIN jobs'
               /\ CronNext(jobs'[id].cron, clock) = schedules'[id].next_run_at]_vars

\* C23: only one instance per schedule runs at a time: no two scan
\* executions started for the same schedule, by a cron run or a trigger, are
\* in progress at the same moment.
C23_OneInstancePerSchedule ==
  \A s1, s2 \in DOMAIN orch :
    (/\ s1 < s2
     /\ orch[s1].origin = "schedule" /\ orch[s1].pc \notin {"returned", "handled"}
     /\ orch[s2].origin = "schedule" /\ orch[s2].pc \notin {"returned", "handled"}
     /\ scans[s1].schedule_id # None)
      => scans[s1].schedule_id # scans[s2].schedule_id

C25_DeleteRemovesFiles ==
  [][\A s \in 1..MaxStoreScans :
       ApiDeleteScan(s) => \A q \in DOMAIN fs' : q[1] # s]_vars

\* C26: deleting a schedule removes its job from the job table, sets
\* schedule_id to null on every scan that referenced it, and deletes no scan,
\* host, port or artifact row.
C26_DeleteScheduleKeepsHistory ==
  [][\A id \in ScheduleIds :
       ApiDeleteSchedule(id)
         => /\ id \notin DOMAIN jobs'
            /\ id \notin DOMAIN schedules'
            /\ DOMAIN scans' = DOMAIN scans
            /\ \A s \in DOMAIN scans :
                 scans'[s] = IF scans[s].schedule_id = id
                             THEN [scans[s] EXCEPT !.schedule_id = None] ELSE scans[s]
            /\ UNCHANGED <<hosts, ports, artifacts>>]_vars

\* the schedule every Store starts with has been deleted; the scans are all
\* there, one of them with its host, port and artifact rows
C26_Witness ==
  /\ schedules = <<>> /\ jobs = <<>>
  /\ DOMAIN scans = 1..MaxStoreScans
  /\ \A s \in DOMAIN scans : scans[s].schedule_id = None
  /\ \E s \in DOMAIN scans :
       /\ \E h \in ScanHosts(s) : HostPorts(h.id) # {}
       /\ \E a \in artifacts : a.scan_id = s

C28_DedupKeepsFirstOfMostPorts ==
  \A s \in DOMAIN orch :
    orch[s].pc \in {"parse", "save"} =>
      LET hs == ParseAll(orch[s].all_discovery_xmls \o orch[s].per_host_xmls)
          d == Dedup(hs, <<>>)
          of(ip) == {k \in 1..Len(hs) : hs[k].ip = ip}
          most(ip) == {k \in of(ip) : \A j \in of(ip) : hs[j].ports <= hs[k].ports}
      IN /\ \A k \in 1..Len(hs) :
              /\ Cardinality({j \in 1..Len(d) : d[j].ip = hs[k].ip}) = 1
              /\ \A j \in 1..Len(d) : d[j].ip = hs[k].ip => d[j] = hs[Min(most(hs[k].ip))]
         /\ \A j \in 1..Len(d) : of(d[j].ip) # {}
         /\ orch[s].pc = "save" => orch[s].hosts_data = SelectSeq(d, HasData)

\* reconciliation has run on two listings of the discovery output and a
\* per-host output that reports more ports than the discovery record
C28_Witness ==
  \E s \in DOMAIN orch :
    /\ orch[s].pc = "save"
    /\ orch[s].networks = 2
    /\ \E k \in 1..Len(orch[s].hosts_data) :
         /\ orch[s].hosts_data[k].ports = MaxPorts + 1
         /\ \E j \in 1..Len(fs[DiscoveryPath(s)].hosts) :
              /\ fs[DiscoveryPath(s)].hosts[j].ip = orch[s].hosts_data[k].ip
              /\ fs[DiscoveryPath(s)].hosts[j].ports < MaxPorts + 1

\* C29: within one scan the phases follow each other strictly: the networks
\* are discovered one after the other and no per-host worker starts before
\* the last has returned; parsing and reconciliation start only when every
\* worker has returned; host and port rows are saved after reconciliation and
\* artifacts generated after that; the write of status = completed is the
\* last write of the execution.
C29_PhaseOrder ==
  [][\A s \in DOMAIN orch :
       LET o == orch[s]
           n == orch'[s]
           phases == <<"idle", "discover", "create_hosts", "start_hosts", "collect",
                       "parse", "save", "reports", "finalize", "returned">>
           rank(p) == CHOOSE k \in 1..Len(phases) : phases[k] = p
           main == {phases[k] : k \in 1..Len(phases)}
       IN /\ (o.pc \in main /\ n.pc \in main)
               => \/ rank(n.pc) \in {rank(o.pc), rank(o.pc) + 1}
                  \/ o.pc = "discover" /\ n.pc = "returned" /\ n.all_live_ips = <<>>
          /\ n.idx # o.idx => o.pc = "discover" /\ n.idx = o.idx + 1 /\ n.idx <= o.networks
          /\ \A i \in DOMAIN tasks[s] :
               (tasks[s][i].st = "queued" /\ tasks'[s][i].st # "queued")
                 => o.pc = "collect" /\ o.idx = o.networks
          /\ (o.pc # "parse" /\ n.pc = "parse")
               => /\ \A i \in DOMAIN tasks[s] : tasks[s][i].st = "done"
                  /\ doneQ[s] = <<>>
          /\ o.pc \in {"parse", "save", "reports", "finalize", "returned"} => tasks'[s] = tasks[s]
          /\ hosts' # hosts => o.pc \in {"create_hosts", "collect", "parse", "save"}
          /\ ports' # ports => o.pc \in {"parse", "save"}
          /\ artifacts' # artifacts => o.pc = "reports"
          /\ (scans'[s].status = COMPLETED /\ scans[s].status # COMPLETED) => n.pc = "returned"
          /\ o.pc = "returned"
               => /\ n = o
                  /\ UNCHANGED <<hosts, ports, artifacts, fs>>
                  /\ scans'[s] # scans[s] => (Tick \/ WatchdogCommit)]_vars

\* a scan of two networks with two live hosts has gone through every phase
C29_Witness ==
  \E s \in DOMAIN orch :
    /\ orch[s].pc = "returned"
    /\ orch[s].networks = 2 /\ orch[s].idx = 2
    /\ Len(tasks[s]) = 2
    /\ orch[s].hosts_data # <<>>
    /\ \E a \in artifacts : a.scan_id = s
    /\ scans[s].status = COMPLETED

\* C30: each host row of a running scan is written by one worker only and
\* moves only pending -> scanning -> completed or failed: no two tasks of a
\* scan work on the same row, scanning is never written to a row that is
\* completed or failed, and no row is pending once the pool has drained
\* (before the save phase adds rows of its own), whatever the list of
\* discovered IPs.
C30_HostRowSingleWorker ==
  [][\A s \in DOMAIN orch :
       /\ \A i, j \in DOMAIN tasks[s] : i # j => tasks[s][i].ip # tasks[s][j].ip
       /\ \A h \in ScanHosts(s) : \A g \in hosts' :
            g.id = h.id =>
              \/ g.scan_status = h.scan_status
              \/ h.scan_status = PENDING /\ g.scan_status = SCANNING
              \/ h.scan_status = SCANNING /\ g.scan_status \in {COMPLETED, FAILED}
       /\ orch[s].pc \in {"parse", "save"}
            => \A h \in ScanHosts(s) : h.scan_status # PENDING]_vars

\* C31: output files never collide: while a scan is on its way to
\* reconciliation, no step of any tool invocation rewrites or removes an
\* output file that an earlier invocation of the scan returned (a discovery
\* output in all_discovery_xmls, a per-host output in per_host_xmls) and
\* that reconciliation has still to parse.
C31_NoOutputOverwritten ==
  [][\A s \in DOMAIN orch :
       orch[s].pc \in {"discover", "discover_killed", "create_hosts", "start_hosts", "collect", "parse"}
         => \A k \in 1..Len(orch[s].all_discovery_xmls \o orch[s].per_host_xmls) :
              LET path == (orch[s].all_discovery_xmls \o orch[s].per_host_xmls)[k]
              IN path \in DOMAIN fs => path \in DOMAIN fs' /\ fs'[path] = fs[path]]_vars

\* C32: a change of scan_parallelism made while a scan is in per-host
\* enumeration leaves the width of that scan's pool as it was (and no more
\* workers than that run at once), and a scan whose per-host enumeration
\* starts after a change gets a pool of the changed width.
C32_ChangeAppliesToLaterScans ==
  [][\A s \in DOMAIN orch :
       /\ orch[s].pc = "collect"
            => /\ orch'[s].max_workers = orch[s].max_workers
               /\ Cardinality(Running(s)') <= orch[s].max_workers
       /\ orch[s].pc = "start_hosts" /\ orch'[s].pc = "collect" /\ scan_parallelism.setting # None
            => orch'[s].max_workers = scan_parallelism.setting]_vars

\* C37: the width of a scan's pool is the value of the scan_parallelism
\* settings row at the moment the per-host enumeration starts, or the
\* default while there is no row, whichever process runs the scan and also
\* after a restart, and it lies within 1..32.
C37_WidthIsPersistedSetting ==
  [][\A s \in DOMAIN orch :
       orch[s].pc = "start_hosts" /\ orch'[s].pc = "collect"
         => /\ orch'[s].max_workers =
                 IF scan_parallelism.setting = None THEN scan_parallelism.default
                 ELSE scan_parallelism.setting
            /\ orch'[s].max_workers \in 1..32]_vars

\* C33: a POST /api/scans without networks, or with an empty list, is
\* answered from auto-detection: 201 and a scan of the detected network
\* when there is one, and 400 when there is none, in which case no scan row
\* is created and no thread started.
C33_EmptyNetworksAutoDetect ==
  \A given \in BOOLEAN : \A detected \in {"", "a"} :
    /\ create_scan(given, <<>>, detected) =
         IF detected = "" THEN [status |-> 400, networks |-> <<>>]
         ELSE [status |-> 201, networks |-> <<detected>>]
    /\ detected = "" => ~ENABLED ApiCreateScan(given, <<>>, detected)

\* C34: every process the cleanup handles is sent terminate first, and kill
\* only after the 5 s wait for its exit has timed out, so a process that
\* exits within the wait is never sent kill; the count returned is the
\* number of processes on which this sequence ran to its end.
C34_TerminateWaitKill ==
  (wd.pc \in {"kill", "commit"} /\ wd.k > 1) =>
    /\ \A p \in DOMAIN wd.events :
         LET e == wd.events[p]
         IN /\ e # <<>> => e[1] = "terminate"
            /\ \A k \in 1..Len(e) :
                 e[k] = "kill" => k = 4 /\ e[2] = "wait" /\ e[3] = "TimeoutExpired"
            /\ \A k \in 1..Len(e) : e[k] = "wait" => k = 2
    /\ wd.killed = Cardinality({p \in DOMAIN wd.events :
                                  wd.events[p] # <<>> /\ wd.events[p][Len(wd.events[p])] \in {"wait", "kill"}})

C34_Witness ==
  /\ wd.pc \in {"kill", "commit"} /\ wd.k > 1
  /\ wd.killed = 2
  /\ \E p, q \in DOMAIN wd.events :
       /\ wd.events[p] = <<"terminate", "wait">>
       /\ wd.events[q] = <<"terminate", "wait", "TimeoutExpired", "kill">>
       /\ tasks[q \div 10][q % 10].st = "killed"

\* C38: the cleanup for a stuck scan finds and signals only processes that
\* were launched for that scan, never those of another scan, such as scan
\* 12 when the stuck scan is 1.
C38_OnlyOwnProcesses ==
  (wd.pc \in {"kill", "commit"} /\ wd.k > 1) =>
    \A p \in DOMAIN wd.events : p \div 10 = wd.scan_id

\* C35: a parsed host is classified by the first rule that applies: a MAC
\* vendor containing one of QEMU, VMware, VirtualBox, Xen, Microsoft,
\* Parallels in any case makes it a VM of that vendor whatever else is
\* known; else the first OS keyword found, in the order docker, lxc,
\* container, kvm, hyperv, vmware, virtualbox, xen, gives its label; else an
\* address in 172.17.0.0/16 or 172.18.0.0/16 gives Docker; else an address
\* in 10.0.3.0/24 gives LXC; else the host is not a VM.
C35_VmClassification ==
  \A s \in DOMAIN tasks : \A i \in DOMAIN tasks[s] :
    tasks[s][i].st = "done" =>
      LET elem == fs[HostPath(s, tasks[s][i].ip)].hosts[1]
          vendors == <<<<"Q", "E", "M", "U">>, <<"V", "M", "w", "a", "r", "e">>, <<"V", "i", "r", "t", "u", "a", "l", "B", "o", "x">>, <<"X", "e", "n">>, <<"M", "i", "c", "r", "o", "s", "o", "f", "t">>, <<"P", "a", "r", "a", "l", "l", "e", "l", "s">>>>
          vendor_label == <<"QEMU", "VMware", "VirtualBox", "Xen", "Microsoft", "Parallels">>
          keywords == <<<<"d", "o", "c", "k", "e", "r">>,
                       <<"l", "x", "c">>,
                       <<"c", "o", "n", "t", "a", "i", "n", "e", "r">>,
                       <<"k", "v", "m">>,
                       <<"h", "y", "p", "e", "r", "v">>,
                       <<"v", "m", "w", "a", "r", "e">>,
                       <<"v", "i", "r", "t", "u", "a", "l", "b", "o", "x">>,
                       <<"x", "e", "n">>>>
          keyword_label == <<"Docker", "LXC", "Container", "KVM", "Hyper-V", "VMware", "VirtualBox", "Xen">>
          by_vendor == {k \in 1..6 : Contains(vendors[k], elem.vendor)}
          by_os == {k \in 1..8 : Contains(keywords[k], elem.os)}
          digits == <<"0", "1", "2", "3", "4", "5", "6", "7", "8", "9">>
          D(c) == (CHOOSE n \in 1..10 : digits[n] = c) - 1
          Num(w) == IF Len(w) = 1 THEN D(w[1])
                    ELSE IF Len(w) = 2 THEN 10 * D(w[1]) + D(w[2])
                    ELSE 100 * D(w[1]) + 10 * D(w[2]) + D(w[3])
          dots == {k \in 1..Len(elem.ip) : elem.ip[k] = "."}
          d1 == Min(dots)
          d2 == Min(dots \ {d1})
          d3 == Min(dots \ {d1, d2})
          o1 == Num(SubSeq(elem.ip, 1, d1 - 1))
          o2 == Num(SubSeq(elem.ip, d1 + 1, d2 - 1))
          o3 == Num(SubSeq(elem.ip, d2 + 1, d3 - 1))
          expected ==
            IF by_vendor # {} THEN {<<TRUE, vendor_label[k]>> : k \in by_vendor}
            ELSE IF by_os # {} THEN {<<TRUE, keyword_label[Min(by_os)]>>}
            ELSE IF o1 = 172 /\ o2 \in {17, 18} THEN {<<TRUE, "Docker">>}
            ELSE IF o1 = 10 /\ o2 = 0 /\ o3 = 3 THEN {<<TRUE, "LXC">>}
            ELSE {<<FALSE, "">>}
      IN \A h \in ScanHosts(s) : <<h.is_vm, h.vm_type>> \in expected

C35_Witness ==
  \E h \in hosts :
    /\ tasks[h.scan_id][1].st = "done"
    /\ h.is_vm /\ h.vm_type = "KVM"
    /\ SubSeq(h.ip, 1, 7) = <<"1", "7", "2", ".", "1", "7", ".">>
    /\ fs[HostPath(h.scan_id, 1)].hosts[1].os = <<"X", "e", "n", " ", "K", "V", "M">>

\* C36: when the subprocess of a host has succeeded and parsing its output or
\* a Store update raises inside the worker, the Host row ends completed with
\* scan_completed_at set and scan_progress_percent 100, never failed; a row
\* becomes failed only in a step in which the runner raised.
C36_ErrorsAfterRunMarkCompleted ==
  [][\A s \in DOMAIN scans : \A i \in DOMAIN tasks[s] :
       /\ \A file \in AllHostScanFiles :
            ((WorkerScanned(s, i, file) /\ ~file.ok)
               \/ \E handled \in BOOLEAN : WorkerStoreError(s, i, file, handled))
              => \A h \in HostsFor(s, tasks[s][i].ip)' :
                   h.id = FirstHost(s, tasks[s][i].ip).id
                     => /\ h.scan_status = COMPLETED
                        /\ h.scan_completed_at # None
                        /\ h.scan_progress_percent = 100
       /\ (\E h \in HostsFor(s, tasks[s][i].ip) : \E g \in hosts' :
              g.id = h.id /\ h.scan_status # FAILED /\ g.scan_status = FAILED)
            => \E j \in DOMAIN tasks[s] : \E kind \in FailureKinds : WorkerFailed(s, j, kind)]_vars

\* C39: in every completed scan the addresses of the Host rows are among the
\* live addresses discovery returned for the scan, and each of them has
\* exactly one Host row: persistence adds no row for an address that was not
\* reported live.
C39_HostRowsAreLiveIPs ==
  \A s \in DOMAIN scans \cap DOMAIN orch :
    scans[s].status = COMPLETED =>
      /\ {h.ip : h \in ScanHosts(s)} \subseteq {orch[s].all_live_ips[k] : k \in 1..Len(orch[s].all_live_ips)}
      /\ \A h \in ScanHosts(s) : Cardinality(HostsFor(s, h.ip)) = 1

\* C40: the output file of a host is part of the reconciliation input exactly
\* when the runner call for the host returned a path.  A worker whose runner
\* returned hands the path to the collection loop and a worker whose runner
\* raised hands over nothing; when parsing begins the per-host inputs are the
\* paths handed over; and an input left by a host whose in-worker parse
\* raised makes the reconciliation raise, which ends the scan failed.
C40_ReconciliationInput ==
  [][\A s \in DOMAIN scans :
       /\ \A i \in DOMAIN tasks[s] :
            /\ (\E file \in AllHostScanFiles :
                  \/ WorkerScanned(s, i, file)
                  \/ \E handled \in BOOLEAN : WorkerStoreError(s, i, file, handled))
                 => tasks'[s][i].ok
            /\ (\E kind \in FailureKinds : WorkerFailed(s, i, kind)) => ~tasks'[s][i].ok
       /\ orch[s].pc = "parse" =>
            /\ \A i \in DOMAIN tasks[s] :
                 tasks[s][i].ok <=> \E k \in 1..Len(orch[s].per_host_xmls) :
                                      orch[s].per_host_xmls[k] = HostPath(s, tasks[s][i].ip)
            /\ (/\ orch'[s].pc # "parse"
                /\ \E k \in 1..Len(orch[s].per_host_xmls) : ~fs[orch[s].per_host_xmls[k]].ok)
                 => orch'[s].pc = "raised" /\ scans'[s].status = FAILED]_vars

====
